---------------------------- MODULE Spec2Model ----------------------------
(***************************************************************************)
(* nb-wrangler: the workflow orchestrator (NotebookWrangler) driven by the  *)
(* command line.  One behaviour is one process run: the command line is     *)
(* parsed into the configuration, the wrangler is constructed, the dev-mode *)
(* defaults are applied, the selected named workflows are dispatched step   *)
(* by step and then the explicit steps are run from the flag-to-step table. *)
(* External collaborators (package manager, git, pantry, compiler) are the  *)
(* nondeterministic outcome of the step that calls them: a step returns     *)
(* True, returns False, or raises.                                          *)
(***************************************************************************)
EXTENDS Integers, Sequences, FiniteSets, TLC

VARIABLES
    argv,                  \* the command line: the flags in the order given
    spec_loaded,           \* the specification document as the run found it
    dev_adjustments,       \* how often _apply_dev_mode_defaults has run
    config,                \* WranglerConfig: workflows, dev, flags (the true booleans)
    spec_doc,              \* the specification document: dev_overrides, kernel_name, out
    compiled_kernel_name,  \* NotebookWrangler.compiled_kernel_name
    pc,                    \* where the run is
    wf_idx,                \* index into config.workflows of the current workflow
    step_idx,              \* index of the next step of the current workflow
    ex_idx,                \* index into flags_and_steps of the next entry to look at
    trace,                 \* the steps executed so far, with what each returned
    wf_results,            \* what each dispatched workflow returned
    log,                   \* the log messages written
    result,                \* what NotebookWrangler.main returned
    exit_code,             \* the exit code of the process, -1 while it runs
    spec_file,             \* the document stored at the specification URI
    resolver_call,         \* the last call of prepare_repositories: request and answer
    step_log,              \* the messages the steps themselves logged
    earlier_runs,          \* the runs on this specification URI before this one
    invocation,            \* how the process was started: --version, the URI, NBW_SPEC
    external,              \* the calls of external collaborators made in this run
    world                  \* what is on disk: the environment, the checkouts, the data

vars == <<argv, spec_loaded, dev_adjustments, config, spec_doc, compiled_kernel_name, pc, wf_idx, step_idx,
          ex_idx, trace, wf_results, log, result, exit_code, spec_file, resolver_call,
          step_log, earlier_runs, invocation, external, world>>

\* At most this many flags on one command line.
MaxArgs == 2

Range(s) == {s[i] : i \in 1..Len(s)}

\* Python's None for a name.
NoName == "None"

---------------------------------------------------------------------------
(* cli.py: the command line *)

\* workflow_flags: the workflow constants in the order of the list
workflow_flags ==
    <<"curation", "reinstall", "reset_curation", "data_curation",
      "data_reinstall", "submit_for_build", "inject_spi">>

\* The store_true / optional flags that select one explicit step each.
StepFlags ==
    {"clone_repos", "packages_compile", "env_init", "packages_install",
     "test_all", "test_imports", "test_notebooks", "spec_update_hash",
     "spec_validate", "env_pack", "env_unpack", "env_register",
     "env_unregister", "env_print_name", "spec_add", "spec_list",
     "finalize_dev_overrides", "data_collect", "data_list", "data_download",
     "data_delete", "data_update", "data_validate", "data_unpack",
     "data_pack", "data_print_exports", "data_symlinks", "delete_repos",
     "packages_uninstall", "env_delete", "env_kernel_cleanup", "env_compact",
     "spec_reset", "data_reset_spec", "reset_log"}

\* The "SPI Automation" flags that make --inject-spi continue past injection.
SpiFlags == {"spi_prune", "spi_build", "spi_commit_message", "spi_push", "spi_pr"}

\* The store_true options the steps read: --spec-ignore-hash,
\* --packages-omit-spi, --data-no-validation, --data-no-unpack-existing,
\* --data-no-symlinks.
OptionFlags ==
    {"spec_ignore_hash", "packages_omit_spi", "data_no_validation",
     "data_no_unpack_existing", "data_no_symlinks"}

\* The branch name --spi-branch gives.
CliBranch == "b_cli"

\* Every flag a command line of the model may hold.
CliFlags == Range(workflow_flags) \cup StepFlags \cup {"dev"}

\* A parser that collects the workflows in the order of the command line.
parse_args_in_line_order(line) ==
    [given     |-> Range(line),
     workflows |-> SelectSeq(line, LAMBDA w : w \in Range(workflow_flags))]

\* parse_args: argparse keeps, for each flag, whether it was given; the
\* workflows are collected by walking workflow_flags, not the command line.
parse_args(line) ==
    [given     |-> Range(line),
     workflows |-> SelectSeq(workflow_flags, LAMBDA w : w \in Range(line))]

---------------------------------------------------------------------------
(* config.py: WranglerConfig *)

\* The fields from_args copies from the parsed arguments.  dev,
\* submit_for_build and finalize_dev_overrides are fields of the dataclass
\* that from_args does not pass: they keep their default, False.
FromArgsFields ==
    (StepFlags \ {"finalize_dev_overrides"}) \cup SpiFlags \cup {"inject_spi"}
        \cup OptionFlags

\* spi_branch is the one field of the model that holds a name: "" when
\* --spi-branch was not given.
from_args(args) ==
    [workflows  |-> args.workflows,
     flags      |-> args.given \cap FromArgsFields,
     dev        |-> FALSE,
     spi_branch |-> IF "spi_branch" \in args.given THEN CliBranch ELSE NoName]

---------------------------------------------------------------------------
(* The specification document (SpecManager) *)

\* The notebook repositories of the document, and the commits a ref may
\* resolve to: the one recorded by an earlier run and the one the remote
\* branch has advanced to since.
Repos == {"nb1", "nb2"}

Commits == {"c_old", "c_new"}

\* The refs of the input section: branch names.
InputRefs == [r \in Repos |-> IF r = "nb1" THEN "main" ELSE "release"]

NoRefs == [r \in Repos |-> NoName]

\* An out section never produced, and one left by an earlier curation.
FreshOut ==
    [kernel_name |-> NoName, mamba_spec |-> "none", pip_compiler_output |-> "none",
     repositories |-> NoRefs, spi |-> NoName, test_notebooks |-> "none",
     data |-> "none"]

CuratedOut ==
    [kernel_name |-> "k_out", mamba_spec |-> "old", pip_compiler_output |-> "old",
     repositories |-> [r \in Repos |-> "c_old"], spi |-> "c_old",
     test_notebooks |-> "found", data |-> "d_old"]

\* A curated out section whose input gained repository nb2 afterwards, and
\* one that was compiled but holds no resolved refs.
PartialOut == [CuratedOut EXCEPT !.repositories = [NoRefs EXCEPT !["nb1"] = "c_old"]]

UnresolvedOut == [CuratedOut EXCEPT !.repositories = NoRefs, !.spi = NoName]

\* The sha256 digest of a document: an injective function of the content
\* that can change, so the content itself.
spec_sha256(doc) == [dev_overrides |-> doc.dev_overrides, out |-> doc.out]

\* SpecManager.add_sha256 / validate_sha256
add_sha256(doc) == [doc EXCEPT !.sha256 = spec_sha256(doc)]

validate_sha256(doc) == doc.sha256 = spec_sha256(doc)

\* A document as the orchestrator saved it: the digest matches.
Document(overrides, out) ==
    add_sha256([dev_overrides |-> overrides, kernel_name |-> "k_in",
                repositories |-> InputRefs, spi |-> "main", out |-> out,
                sha256 |-> [dev_overrides |-> overrides, out |-> out]])

\* A document whose out.kernel_name was edited by hand after it was saved:
\* the recorded digest is that of the content before the edit.
HandEdited(doc) == [doc EXCEPT !.sha256.out.kernel_name = "k_orig"]

\* The documents a run may load: with or without dev_overrides, curated or not.
Documents == {Document(o, out) : o \in BOOLEAN, out \in {FreshOut, CuratedOut}}

\* The documents of the lifecycle runs: also partly resolved ones and ones
\* edited by hand.
LifecycleDocuments ==
    LET saved == {Document(FALSE, out) :
                     out \in {FreshOut, CuratedOut, PartialOut, UnresolvedOut}}
    IN saved \cup {HandEdited(d) : d \in saved}

\* The name a compile step of this run may produce.
CompiledNames == {"k_new"}

\* SpecManager.get_output_data(key): the out field, None when absent.
get_output_data(key) == spec_doc.out[key]

\* SpecManager.outputs_exist(*keys)
outputs_exist(keys) == \A k \in keys : spec_doc.out[k] # "none"

\* SpecManager.dev_overrides_exist()
dev_overrides_exist == spec_doc.dev_overrides

\* SpecManager.get_repository_refs(): url -> ref of the input section.
get_repository_refs == spec_doc.repositories

\* SpecManager.get_output_repository_refs(): url -> ref for the repositories
\* the out section holds a resolved ref for.
get_output_repository_refs ==
    [r \in {q \in Repos : spec_doc.out.repositories[q] # NoName} |->
        spec_doc.out.repositories[r]]

\* SpecManager.revise_and_save(dir, add_sha256, **fields): the fields replace
\* the out fields of the same name in the in-memory document, and the digest
\* is recomputed if requested.
revise_and_save(add, fields) ==
    LET merged == [spec_doc EXCEPT !.out =
                      [k \in DOMAIN spec_doc.out |->
                          IF k \in DOMAIN fields THEN fields[k] ELSE spec_doc.out[k]]]
    IN IF add THEN add_sha256(merged) ELSE merged

\* SpecManager.save_spec(dir, add_sha256): the document that is written.
save_spec(add) == IF add THEN add_sha256(spec_doc) ELSE spec_doc

\* SpecManager.reset_spec(): out is cleared except its data block; the
\* digest follows the mutation of out.
reset_spec ==
    add_sha256([spec_doc EXCEPT !.out = [FreshOut EXCEPT !.data = spec_doc.out.data]])

\* SpecManager.data_reset_spec(): the data block of out is cleared.
data_reset_spec == add_sha256([spec_doc EXCEPT !.out.data = "none"])

\* RepositoryManager.prepare_repositories resolves one ref: a commit is
\* itself, a branch name is the commit the branch is at.
resolve(ref) == IF ref \in Commits THEN ref ELSE "c_new"

---------------------------------------------------------------------------
(* wrangler.py: NotebookWrangler, derived values *)

\* Python's `a or b` on names: a unless it is None (or empty).
PyOr(a, b) == IF a # NoName THEN a ELSE b

\* NotebookWrangler.env_name
env_name == spec_doc.kernel_name

\* A priority that puts the out section before this run's compile step.
kname_priority_out_first(compiled, recorded, declared) ==
    PyOr(recorded, PyOr(compiled, declared))

\* The `or` chain of resolved_kname: the compiled name, else the name in the
\* out section, else the name the input section declares.
kname_priority(compiled, recorded, declared) ==
    PyOr(compiled, PyOr(recorded, declared))

\* NotebookWrangler.resolved_kname
resolved_kname ==
    kname_priority(compiled_kernel_name, get_output_data("kernel_name"), env_name)

---------------------------------------------------------------------------
(* wrangler.py: the workflows and the explicit-step table *)

\* The step lists the _run_*_workflow methods hand to run_workflow.
workflow_steps(w) ==
    CASE w = "curation" ->
            <<"_prepare_all_repositories", "_compile_requirements",
              "_initialize_environment", "_install_packages", "_save_final_spec">>
      [] w = "data_curation" ->
            <<"_prepare_all_repositories", "_spec_add", "_data_collect",
              "_data_download", "_data_update", "_data_validate", "_data_unpack",
              "_save_final_spec">>
      [] w = "submit_for_build" ->
            <<"_validate_spec", "_prepare_all_repositories", "_submit_for_build">>
      [] w = "inject_spi" ->
            <<"_validate_spec", "_prepare_all_repositories", "_inject_spi">>
      [] w = "reinstall" ->
            <<"_prepare_all_repositories_locked", "_validate_spec", "_spec_add",
              "_initialize_environment", "_install_packages">>
      [] w = "data_reinstall" ->
            <<"_validate_spec", "_spec_add", "_data_download", "_data_validate",
              "_data_unpack">>
      [] w = "reset_curation" ->
            <<"_delete_environment", "_reset_spec", "_save_final_spec", "_reset_log">>
      [] OTHER -> <<>>

\* The keys of workflow_map in _main_uncaught_core.
workflow_map ==
    {"curation", "submit_for_build", "inject_spi", "reinstall", "data_curation",
     "data_reinstall", "reset_curation"}

Entry(flags, step) == [flags |-> flags, step |-> step]

\* flags_and_steps of _run_explicit_steps: the flags of an entry are or-ed.
flags_and_steps ==
    <<Entry({"clone_repos"}, "_prepare_all_repositories"),
      Entry({"packages_compile"}, "_compile_requirements"),
      Entry({"env_init"}, "_initialize_environment"),
      Entry({"packages_install"}, "_install_packages"),
      Entry({"test_all", "test_imports"}, "_test_imports"),
      Entry({"test_all", "test_notebooks"}, "_test_notebooks"),
      Entry({"spec_update_hash"}, "_update_spec_sha256"),
      Entry({"spec_validate"}, "_validate_spec"),
      Entry({"env_pack"}, "_pack_environment"),
      Entry({"env_unpack"}, "_unpack_environment"),
      Entry({"env_register"}, "_register_environment"),
      Entry({"env_unregister"}, "_unregister_environment"),
      Entry({"env_print_name"}, "_env_print_name"),
      Entry({"spec_add"}, "_spec_add"),
      Entry({"spec_list"}, "_spec_list"),
      Entry({"finalize_dev_overrides"}, "_finalize_dev_overrides"),
      Entry({"data_collect"}, "_data_collect"),
      Entry({"data_list"}, "_data_list"),
      Entry({"data_download"}, "_data_download"),
      Entry({"data_delete"}, "_data_delete"),
      Entry({"data_update"}, "_data_update"),
      Entry({"data_validate"}, "_data_validate"),
      Entry({"data_unpack"}, "_data_unpack"),
      Entry({"data_pack"}, "_data_pack"),
      Entry({"data_print_exports"}, "_data_print_exports"),
      Entry({"data_symlinks"}, "_data_symlink_install_data"),
      Entry({"delete_repos"}, "_delete_repos"),
      Entry({"packages_uninstall"}, "_uninstall_packages"),
      Entry({"env_delete"}, "_delete_environment"),
      Entry({"env_kernel_cleanup"}, "_cleanup_kernels"),
      Entry({"env_compact"}, "_env_compact"),
      Entry({"spec_reset"}, "_reset_spec"),
      Entry({"data_reset_spec"}, "_data_reset_spec"),
      Entry({"reset_log"}, "_reset_log")>>

\* A loop that walks the table from its end.
loop_entry_reversed(i) == flags_and_steps[Len(flags_and_steps) + 1 - i]

\* The i-th (flag, step) pair the loop of _run_explicit_steps visits.
loop_entry(i) == flags_and_steps[i]

\* The flag of the i-th pair: the or of the configuration fields it names.
Flagged(i) == loop_entry(i).flags \cap config.flags # {}

\* The first flagged entry at or after position i, 0 when there is none: the
\* entry the `for flag, step in flags_and_steps` loop executes next.
next_flagged(i) ==
    IF \E j \in i..Len(flags_and_steps) : Flagged(j)
    THEN CHOOSE j \in i..Len(flags_and_steps) :
            Flagged(j) /\ \A k \in i..(j - 1) : ~Flagged(k)
    ELSE 0

---------------------------------------------------------------------------
(* The run *)

\* cli._main: `return 1 if not exit_code else 0`
main_exit(r) == IF r = "success" THEN 0 ELSE 1

\* No call of prepare_repositories yet.
NoRequest == [t \in {} |-> NoName]

NoCall ==
    [made |-> FALSE, floating |-> TRUE, requested |-> NoRequest, error |-> FALSE,
     resolved |-> NoRequest]

\* The data archives the data block of a document selects.
Assets == <<"a1", "a2">>

\* Nothing on disk yet: no environment, no checkout, no unpacked archive.
EmptyWorld == [env |-> {}, repos |-> NoRequest, unpacked |-> {}]

\* nb-wrangler <spec_uri> ...: the URI is given and can be read.
WithUri == [version |-> FALSE, spec_uri |-> TRUE, NBW_SPEC |-> FALSE, readable |-> TRUE]

\* A process starts on command line argv with the document spec_doc at the
\* specification URI.
ProcessStart ==
    /\ config = from_args(parse_args(argv))
    /\ spec_loaded = spec_doc
    /\ spec_file = spec_doc
    /\ resolver_call = NoCall
    /\ step_log = {}
    /\ external = <<>>
    /\ dev_adjustments = 0
    /\ compiled_kernel_name = NoName
    /\ pc = "construct"
    /\ wf_idx = 1
    /\ step_idx = 1
    /\ ex_idx = 1
    /\ trace = <<>>
    /\ wf_results = <<>>
    /\ log = {}
    /\ result = "none"
    /\ exit_code = -1

Init ==
    /\ argv \in {s \in UNION {[1..n -> CliFlags] : n \in 0..MaxArgs} :
                    \A i, j \in 1..Len(s) : i # j => s[i] # s[j]}
    /\ spec_doc \in Documents
    /\ earlier_runs = <<>>
    /\ invocation = WithUri
    /\ world = EmptyWorld
    /\ ProcessStart

\* The run ends: main returns r and the process exits.
Finish(r) ==
    /\ result' = r
    /\ exit_code' = main_exit(r)
    /\ pc' = "done"

\* cli._main constructs the wrangler: NotebookWrangler.__init__ loads and
\* validates the document, or raises and the run ends there.
Construct ==
    /\ pc = "construct"
    /\ \E loaded \in BOOLEAN :
          IF loaded
          THEN /\ pc' = "main"
               /\ UNCHANGED <<result, exit_code, log>>
          ELSE /\ Finish("failure")
               /\ log' = log \cup {[level |-> "exception", msg |-> "Failed:", about |-> "init"]}
    /\ UNCHANGED <<argv, spec_loaded, dev_adjustments, config, spec_doc,
                   compiled_kernel_name, wf_idx,
                   step_idx, ex_idx, trace, wf_results, spec_file, resolver_call,
                   step_log, earlier_runs, invocation, external, world>>

\* _apply_dev_mode_defaults without the warning of the curation branch.
apply_dev_mode_defaults_silent(workflows, explicit_dev_cli, overrides) ==
    IF "curation" \in Range(workflows) \/ "data_curation" \in Range(workflows)
    THEN IF ~explicit_dev_cli
         THEN [dev |-> overrides, log |-> {}]
         ELSE [dev |-> explicit_dev_cli, log |-> {}]
    ELSE [dev |-> explicit_dev_cli, log |-> {}]

\* _apply_dev_mode_defaults: the value config.dev is left with and the
\* messages logged, from the workflows, config.dev as it was and whether the
\* document has dev_overrides.
apply_dev_mode_defaults(workflows, explicit_dev_cli, overrides) ==
    IF "curation" \in Range(workflows) \/ "data_curation" \in Range(workflows)
    THEN IF ~explicit_dev_cli
         THEN IF overrides
              THEN [dev |-> TRUE,
                    log |-> {[level |-> "info", msg |-> "Implicitly activating --dev",
                              about |-> "dev"]}]
              ELSE [dev |-> FALSE,
                    log |-> {[level |-> "warning", msg |-> "No dev_overrides found",
                              about |-> "dev"]}]
         ELSE [dev |-> explicit_dev_cli, log |-> {}]
    ELSE IF "reinstall" \in Range(workflows) \/ "data_reinstall" \in Range(workflows)
    THEN IF ~explicit_dev_cli
         THEN [dev |-> FALSE, log |-> {}]
         ELSE IF ~overrides
              THEN [dev |-> explicit_dev_cli,
                    log |-> {[level |-> "error",
                              msg |-> "Explicit --dev used for reinstall workflow",
                              about |-> "dev"]}]
              ELSE [dev |-> explicit_dev_cli, log |-> {}]
    ELSE IF ~explicit_dev_cli
         THEN [dev |-> FALSE, log |-> {}]
         ELSE [dev |-> explicit_dev_cli, log |-> {}]

\* Where _main_uncaught_core goes with workflow number i next: the for loop
\* over config.workflows, then _run_explicit_steps.
loop_pc(i) == IF i <= Len(config.workflows) THEN "dispatch" ELSE "explicit"

\* _main_uncaught_core up to the workflow loop: _setup_environment (always
\* True), then _apply_dev_mode_defaults.
MainEnter ==
    /\ pc = "main"
    /\ LET d == apply_dev_mode_defaults(config.workflows, config.dev, dev_overrides_exist)
       IN /\ config' = [config EXCEPT !.dev = d.dev]
          /\ log' = log \cup d.log
    /\ dev_adjustments' = dev_adjustments + 1
    /\ pc' = loop_pc(1)
    /\ UNCHANGED <<argv, spec_loaded, spec_doc, compiled_kernel_name, wf_idx, step_idx,
                   ex_idx, trace, wf_results, result, exit_code, spec_file,
                   resolver_call, step_log, earlier_runs, invocation, external, world>>

---------------------------------------------------------------------------
(* wrangler.py: the steps.  ret is what the call of the step does: it       *)
(* returns "True" or "False", or it raises ("raise").                       *)

Rets == {"True", "False", "raise"}

\* config.spec_ignore_hash
spec_ignore_hash == "spec_ignore_hash" \in config.flags

LockedFallbackWarning ==
    [level |-> "warning", msg |-> "Locked mode is on, but no refs found in spec output",
     about |-> "_collect_repositories_to_prepare"]

\* The url -> ref mapping handed to the resolver, and the warning logged:
\* the SPI and notebook refs are read from the out section when from_out,
\* else from the input section.  Without any recorded notebook ref the input
\* refs are used; a repository without a ref in the mapping read gets "main".
repositories_to_prepare(from_out) ==
    LET omit_spi == /\ "packages_omit_spi" \in config.flags
                    /\ "inject_spi" \notin config.flags
                    /\ "submit_for_build" \notin config.flags
        spi_ref == IF from_out THEN PyOr(get_output_data("spi"), spec_doc.spi)
                   ELSE spec_doc.spi
        fallback == from_out /\ DOMAIN get_output_repository_refs = {}
        refs == IF from_out /\ ~fallback THEN get_output_repository_refs
                ELSE get_repository_refs
    IN [requested |->
           [t \in Repos \cup (IF omit_spi THEN {} ELSE {"spi"}) |->
               IF t = "spi" THEN PyOr(spi_ref, "main")
               ELSE IF t \in DOMAIN refs THEN refs[t] ELSE "main"],
        log |-> IF fallback THEN {LockedFallbackWarning} ELSE {}]

\* A collection that reads the input section in both modes.
_collect_input_refs_always(floating_mode) == repositories_to_prepare(FALSE)

\* A collection that reads the out section in both modes.
_collect_output_refs_always(floating_mode) == repositories_to_prepare(TRUE)

\* _collect_repositories_to_prepare(floating_mode)
_collect_repositories_to_prepare(floating_mode) == repositories_to_prepare(~floating_mode)

\* How far _prepare_all_repositories gets: the resolver raises RuntimeError;
\* collecting notebook paths or imports raises; revise_and_save fails; or all
\* of it succeeds.
PrepareStages == {"resolver_error", "collect_error", "save_failed", "done"}

\* Out fields that keep the refs of the input section whatever was resolved.
unresolved_outputs(resolved) ==
    [repositories |-> spec_doc.repositories, spi |-> spec_doc.spi,
     test_notebooks |-> "found"]

\* The out fields _prepare_all_repositories writes for the resolved states:
\* _update_spec_with_repo_states and the SPI ref.
resolved_outputs(resolved) ==
    [repositories |-> [r \in Repos |->
                          IF r \in DOMAIN resolved THEN resolved[r]
                          ELSE spec_doc.repositories[r]],
     spi |-> IF "spi" \in DOMAIN resolved THEN resolved["spi"] ELSE spec_doc.spi,
     test_notebooks |-> "found"]

\* A preparation that writes the resolved outputs although the resolver raised.
prepared_document_partial(stage, resolved) ==
    IF stage = "collect_error" THEN spec_doc
    ELSE revise_and_save(~spec_ignore_hash, resolved_outputs(resolved))

\* The in-memory document _prepare_all_repositories leaves.
prepared_document(stage, resolved) ==
    IF stage \in {"resolver_error", "collect_error"} THEN spec_doc
    ELSE revise_and_save(~spec_ignore_hash, resolved_outputs(resolved))

\* _prepare_all_repositories(floating_mode); the document is saved to
\* config.output_dir, not to the location of the specification.
_prepare_all_repositories(floating_mode, ret) ==
    \E stage \in PrepareStages :
       LET collected == _collect_repositories_to_prepare(floating_mode)
           resolved == [t \in DOMAIN collected.requested |->
                           resolve(collected.requested[t])]
       IN /\ ret = CASE stage = "collect_error" -> "raise"
                     [] stage = "done" -> "True"
                     [] OTHER -> "False"
          /\ resolver_call' =
                [made |-> TRUE, floating |-> floating_mode,
                 requested |-> collected.requested,
                 error |-> stage = "resolver_error",
                 resolved |-> IF stage = "resolver_error" THEN NoRequest ELSE resolved]
          /\ step_log' = step_log \cup collected.log
          /\ spec_doc' = prepared_document(stage, resolved)
          /\ world' = IF stage = "resolver_error" THEN world
                       ELSE [world EXCEPT !.repos = resolved]
          /\ UNCHANGED <<compiled_kernel_name, spec_file, external>>

\* How far _compile_requirements gets: consolidate_environment raises; the
\* first revise_and_save fails; pip pin-compilation fails; the second
\* revise_and_save fails; or all of it succeeds.
CompileStages == {"consolidate", "save_mamba", "pip_compile", "save_pip", "done"}

_compile_requirements(ret) ==
    \E name \in CompiledNames, stage \in CompileStages :
       /\ ret = CASE stage = "consolidate" -> "raise"
                  [] stage = "done" -> "True"
                  [] OTHER -> "False"
       /\ compiled_kernel_name' =
             IF stage = "consolidate" THEN compiled_kernel_name ELSE name
       /\ LET kname == kname_priority(name, get_output_data("kernel_name"), env_name)
              saved == [kernel_name |-> kname, mamba_spec |-> "new"]
              pip == [kernel_name |-> kname, mamba_spec |-> "new",
                      pip_compiler_output |-> "new"]
          IN spec_doc' =
                CASE stage = "consolidate" -> spec_doc
                  [] stage \in {"save_mamba", "pip_compile"} ->
                        revise_and_save(~spec_ignore_hash, saved)
                  [] OTHER -> revise_and_save(~spec_ignore_hash, pip)
       /\ UNCHANGED <<spec_file, resolver_call, step_log, external, world>>

\* What subprocess.run with a timeout does: exit status 0, another exit
\* status, or TimeoutExpired is raised.
Outcomes == {"ok", "nonzero", "timeout"}

\* One call of an external collaborator, made by the step that becomes entry
\* number `at` of the trace.
Call(cmd, arg, outcome) ==
    [at |-> Len(trace) + 1, cmd |-> cmd, arg |-> arg, outcome |-> outcome]

\* A command runner that runs a command again after a timeout, once.
wrangler_run_retrying(cmd, arg, outcome) ==
    IF outcome = "timeout"
    THEN <<Call(cmd, arg, "timeout"), Call(cmd, arg, "timeout")>>
    ELSE <<Call(cmd, arg, outcome)>>

\* EnvironmentManager.wrangler_run: one subprocess.run of the command.
wrangler_run(cmd, arg, outcome) == <<Call(cmd, arg, outcome)>>

\* What a step that runs one command through wrangler_run(check=False) and
\* handle_result can do: TimeoutExpired is not caught and leaves the step; a
\* non-zero exit status makes handle_result return False.
handle_result(outcome, ret) ==
    /\ outcome = "timeout" => ret = "raise"
    /\ outcome = "nonzero" => ret = "False"

\* The root directory under which the wrangler keeps its environments.
NBW_MM == "/nbw/mm"

\* The path `mamba env list` shows for the environment called name.
env_path(name) == NBW_MM \o "/envs/" \o name

\* EnvironmentManager.is_base_env_alias
is_base_env_alias(name) == name \in {"base", "python3"}

\* EnvironmentManager.get_existing_envs: the paths `mamba env list --json`
\* printed, or [] when the command failed in any way (the exception is
\* caught and logged).
get_existing_envs(listing) == IF listing = "ok" THEN world.env ELSE {}

\* The `env list` command environment_exists runs, unless the name is an
\* alias of the base environment.
listing_calls(name, listing) ==
    IF is_base_env_alias(name) THEN <<>> ELSE wrangler_run("env_list", name, listing)

\* EnvironmentManager.environment_exists: an alias of the base environment
\* exists; else some listed path starts with the root and ends with the name.
environment_exists(name, listing) ==
    \/ is_base_env_alias(name)
    \/ \E env \in get_existing_envs(listing) :
          /\ Len(env) >= Len(NBW_MM) /\ SubSeq(env, 1, Len(NBW_MM)) = NBW_MM
          /\ Len(env) >= Len(name)
          /\ SubSeq(env, Len(env) - Len(name) + 1, Len(env)) = name

\* What follows a created environment in _initialize_environment: the kernel
\* is registered, then _copy_spec_to_env saves the document into the
\* environment; the first failure ends the step.
register_and_copy(name, registered, copied) ==
    wrangler_run("register_environment", name, registered) \o
       (IF registered = "ok" THEN <<Call("copy_spec_to_env", name, copied)>> ELSE <<>>)

\* An initialization that creates the environment without asking whether it
\* exists.
initialize_skipped_never(name, listing) == FALSE

\* The early return of _initialize_environment for an environment that
\* exists.
initialize_skipped(name, listing) == environment_exists(name, listing)

\* _initialize_environment: fails at once without a kernel name or a compiled
\* mamba_spec; is done when the environment exists; else creates it,
\* registers it and copies the specification into it.
_initialize_environment(ret) ==
    IF resolved_kname = NoName \/ get_output_data("mamba_spec") = "none"
    THEN /\ ret = "False"
         /\ UNCHANGED <<spec_doc, compiled_kernel_name, spec_file, resolver_call, step_log, external, world>>
    ELSE \E listing \in Outcomes :
            IF initialize_skipped(resolved_kname, listing)
            THEN /\ ret = "True"
                 /\ external' = external \o listing_calls(resolved_kname, listing)
                 /\ UNCHANGED <<spec_doc, compiled_kernel_name, spec_file, resolver_call, step_log, world>>
            ELSE \E outcome \in Outcomes, registered \in Outcomes, copied \in {"ok", "nonzero"} :
                    /\ external' =
                          external \o listing_calls(resolved_kname, listing) \o
                             wrangler_run("create_environment", resolved_kname, outcome) \o
                             (IF outcome = "ok"
                              THEN register_and_copy(resolved_kname, registered, copied)
                              ELSE <<>>)
                    /\ handle_result(outcome, ret)
                    /\ outcome = "ok" => /\ handle_result(registered, ret)
                                         /\ registered = "ok" =>
                                               ret = (IF copied = "ok" THEN "True" ELSE "False")
                    /\ world' = [world EXCEPT !.env =
                                    IF outcome = "ok"
                                    THEN world.env \cup {env_path(resolved_kname)}
                                    ELSE world.env]
                    /\ UNCHANGED <<spec_doc, compiled_kernel_name, spec_file, resolver_call, step_log>>

\* _install_packages reads pip_packages first, which calls splitlines() on
\* the pip_compiler_output field: None raises.  Then the packages are
\* installed and the specification is copied into the environment.
_install_packages(ret) ==
    IF get_output_data("pip_compiler_output") = "none"
    THEN /\ ret = "raise"
         /\ UNCHANGED <<spec_doc, compiled_kernel_name, spec_file, resolver_call, step_log, external, world>>
    ELSE \E outcome \in Outcomes :
            /\ external' = external \o wrangler_run("install_packages", resolved_kname, outcome)
            /\ handle_result(outcome, ret)
            /\ UNCHANGED <<spec_doc, compiled_kernel_name, spec_file, resolver_call, step_log, world>>

\* _uninstall_packages: the same with the uninstall command.
_uninstall_packages(ret) ==
    IF get_output_data("pip_compiler_output") = "none"
    THEN /\ ret = "raise"
         /\ UNCHANGED <<spec_doc, compiled_kernel_name, spec_file, resolver_call, step_log, external, world>>
    ELSE \E outcome \in Outcomes :
            /\ external' = external \o wrangler_run("uninstall_packages", resolved_kname, outcome)
            /\ handle_result(outcome, ret)
            /\ UNCHANGED <<spec_doc, compiled_kernel_name, spec_file, resolver_call, step_log, world>>

\* _test_imports: without notebooks in the out section nothing is run; else
\* test_nb_imports runs the import test, and a failed or timed-out import
\* makes it report an error.
_test_imports(ret) ==
    IF get_output_data("test_notebooks") = "none"
    THEN UNCHANGED <<spec_doc, compiled_kernel_name, spec_file, resolver_call, step_log, external, world>>
    ELSE \E outcome \in Outcomes :
            /\ external' = external \o wrangler_run("test_imports", resolved_kname, outcome)
            /\ outcome # "ok" => ret # "True"
            /\ UNCHANGED <<spec_doc, compiled_kernel_name, spec_file, resolver_call, step_log, world>>

\* EnvironmentManager.unregister_environment and delete_environment: the
\* command is run only for an environment that exists.
guarded_command(cmd, name, listing, outcome) ==
    listing_calls(name, listing) \o
       (IF environment_exists(name, listing) THEN wrangler_run(cmd, name, outcome) ELSE <<>>)

\* A delete step that fails when the removal of the environment fails.
delete_result_strict(raised, unregistered, deleted) ==
    IF raised THEN "raise" ELSE IF deleted THEN "True" ELSE "False"

\* What _delete_environment returns: the results of unregistering and of
\* deleting are only logged as warnings.
delete_result(raised, unregistered, deleted) == IF raised THEN "raise" ELSE "True"

\* _delete_environment: without a kernel name a warning; else the kernel is
\* unregistered and the environment removed, each when the environment
\* exists.  A TimeoutExpired of either command is not caught.
_delete_environment(ret) ==
    IF resolved_kname = NoName
    THEN /\ ret = "True"
         /\ UNCHANGED <<spec_doc, compiled_kernel_name, spec_file, resolver_call, step_log, external, world>>
    ELSE \E l1 \in Outcomes, l2 \in Outcomes, u \in Outcomes, d \in Outcomes :
            LET name == resolved_kname
                unregister_raised == environment_exists(name, l1) /\ u = "timeout"
                delete_raised == environment_exists(name, l2) /\ d = "timeout"
                unregistered == ~environment_exists(name, l1) \/ u = "ok"
                deleted == ~environment_exists(name, l2) \/ d = "ok"
                removed == ~unregister_raised /\ environment_exists(name, l2) /\ d = "ok"
            IN /\ external' =
                     external \o guarded_command("unregister_environment", name, l1, u) \o
                        (IF unregister_raised THEN <<>>
                         ELSE guarded_command("delete_environment", name, l2, d))
               /\ ret = delete_result(unregister_raised \/ delete_raised,
                                      unregistered, deleted)
               /\ world' = [world EXCEPT !.env =
                               IF removed THEN world.env \ {env_path(name)} ELSE world.env]
               /\ UNCHANGED <<spec_doc, compiled_kernel_name, spec_file, resolver_call, step_log>>

\* _delete_repos: RepositoryManager.delete_repos removes the clones.
_delete_repos(ret) ==
    /\ world' = IF ret = "True" THEN [world EXCEPT !.repos = NoRequest] ELSE world
    /\ UNCHANGED <<spec_doc, compiled_kernel_name, spec_file, resolver_call, step_log, external>>

\* A spec-reset step that does not reach the document.
_reset_spec_skipped(ret) ==
    /\ ret \in {"True", "False"}
    /\ UNCHANGED <<spec_doc, compiled_kernel_name, spec_file, resolver_call, step_log, external, world>>

\* _reset_spec: SpecManager.reset_spec()
_reset_spec(ret) ==
    /\ ret \in {"True", "False"}
    /\ spec_doc' = reset_spec
    /\ UNCHANGED <<compiled_kernel_name, spec_file, resolver_call, step_log, external, world>>

\* _data_reset_spec: SpecManager.data_reset_spec()
_data_reset_spec(ret) ==
    /\ ret \in {"True", "False"}
    /\ spec_doc' = data_reset_spec
    /\ UNCHANGED <<compiled_kernel_name, spec_file, resolver_call, step_log, external, world>>

\* _finalize_dev_overrides: SpecManager.remove_dev_overrides()
_finalize_dev_overrides(ret) ==
    /\ ret \in {"True", "False"}
    /\ spec_doc' = [spec_doc EXCEPT !.dev_overrides = FALSE]
    /\ UNCHANGED <<compiled_kernel_name, spec_file, resolver_call, step_log, external, world>>

IgnoringHashWarning ==
    [level |-> "warning", msg |-> "Ignoring spec_sha256 checksum validation",
     about |-> "_validate_spec_sha256"]

\* A digest check that passes without looking at the document.
_validate_spec_sha256_unchecked(doc) == [ok |-> TRUE, log |-> {}]

\* _validate_spec_sha256: with spec_ignore_hash the warning is logged and the
\* check passes, else the digest of the document is compared.
_validate_spec_sha256(doc) ==
    IF spec_ignore_hash
    THEN [ok |-> TRUE, log |-> {IgnoringHashWarning}]
    ELSE [ok |-> validate_sha256(doc), log |-> {}]

\* _validate_spec: the schema validation, which any document may fail, then
\* the digest check, reached when the schema validation passed.
_validate_spec(ret) ==
    /\ \E schema_ok \in BOOLEAN :
          LET digest == _validate_spec_sha256(spec_doc)
          IN /\ ret = "True" => schema_ok /\ digest.ok
             /\ ret = "False" => ~schema_ok \/ ~digest.ok
             /\ step_log' = IF schema_ok /\ ret # "raise"
                            THEN step_log \cup digest.log ELSE step_log
    /\ UNCHANGED <<spec_doc, compiled_kernel_name, spec_file, resolver_call, external, world>>

\* How far a step that ends in a save gets: a collaborator raises; the save
\* fails; or all of it succeeds.
SaveStages == {"raise", "save_failed", "done"}

save_ret(stage) ==
    CASE stage = "raise" -> "raise"
      [] stage = "done" -> "True"
      [] OTHER -> "False"

\* _data_collect: without out.repositories the read of its values raises;
\* the new data block is saved, next to the specification, by a
\* revise_and_save that is not asked for the digest.
_data_collect(ret) ==
    \E stage \in SaveStages :
       /\ ret = save_ret(stage)
       /\ DOMAIN get_output_repository_refs = {} => stage = "raise"
       /\ spec_doc' = IF stage = "raise" THEN spec_doc
                      ELSE revise_and_save(FALSE, [data |-> "d_collected"])
       /\ spec_file' = IF stage = "done" THEN spec_doc' ELSE spec_file
       /\ UNCHANGED <<compiled_kernel_name, resolver_call, step_log, external, world>>

\* _data_update: skipped with --data-no-validation; without a data block
\* _get_data_url_tuples raises; the metadata is added to the data block,
\* which is saved like that of _data_collect.
_data_update(ret) ==
    IF "data_no_validation" \in config.flags
    THEN /\ ret = "True"
         /\ UNCHANGED <<spec_doc, compiled_kernel_name, spec_file, resolver_call, step_log, external, world>>
    ELSE \E stage \in SaveStages :
            /\ ret = save_ret(stage)
            /\ get_output_data("data") = "none" => stage = "raise"
            /\ spec_doc' = IF stage = "raise" THEN spec_doc
                           ELSE revise_and_save(FALSE, [data |-> "d_updated"])
            /\ spec_file' = IF stage = "done" THEN spec_doc' ELSE spec_file
            /\ UNCHANGED <<compiled_kernel_name, resolver_call, step_log, external, world>>

\* save_spec to the location of the specification, as _save_final_spec
\* (add_sha256 = not spec_ignore_hash) and _update_spec_sha256 (True) call it.
_save_spec(add, ret) ==
    \E stage \in SaveStages :
       /\ ret = save_ret(stage)
       /\ spec_doc' = IF stage = "raise" THEN spec_doc ELSE save_spec(add)
       /\ spec_file' = IF stage = "done" THEN spec_doc' ELSE spec_file
       /\ UNCHANGED <<compiled_kernel_name, resolver_call, step_log, external, world>>

\* The steps that end in `return True` whatever their collaborators answer.
ReturnsTrue ==
    {"_spec_add", "_data_symlink_install_data"}

\* The steps that only print: they call no collaborator.
OnlyPrints == {"_env_print_name", "_data_print_exports"}

\* The steps that start with _get_data_url_tuples, which raises when the out
\* section has no data block.
NeedsData ==
    {"_data_list", "_data_download", "_data_delete", "_data_unpack",
     "_data_symlink_install_data", "_data_pack"}

LacksData(fn) == fn \in NeedsData /\ get_output_data("data") = "none"

\* The answer of validate_all_data for the archives that do not match their
\* recorded metadata: each archive is reported, and one mismatch fails all.
validate_all_data(mismatched) ==
    [calls |-> [i \in 1..Len(Assets) |->
                   Call("validate", Assets[i],
                        IF Assets[i] \in mismatched THEN "mismatch" ELSE "ok")],
     ok |-> mismatched = {}]

\* A data validation that logs the mismatch and goes on.
data_validated_lenient(valid, ret) == ret # "False"

\* What _data_validate returns for the answer of validate_all_data.
data_validated(valid, ret) == IF valid THEN ret # "False" ELSE ret = "False"

\* _data_validate: skipped with --data-no-validation; without a data block
\* _get_data_url_tuples raises; without metadata in the data block it fails;
\* else the archives are validated against the metadata.
_data_validate(ret) ==
    IF "data_no_validation" \in config.flags
    THEN /\ ret = "True"
         /\ UNCHANGED <<spec_doc, compiled_kernel_name, spec_file, resolver_call, step_log, external, world>>
    ELSE IF get_output_data("data") = "none"
    THEN /\ ret = "raise"
         /\ UNCHANGED <<spec_doc, compiled_kernel_name, spec_file, resolver_call, step_log, external, world>>
    ELSE IF get_output_data("data") = "d_collected"
    THEN /\ ret = "False"
         /\ UNCHANGED <<spec_doc, compiled_kernel_name, spec_file, resolver_call, step_log, external, world>>
    ELSE \E mismatched \in SUBSET Range(Assets) :
            LET answer == validate_all_data(mismatched)
            IN /\ external' = external \o answer.calls
               /\ data_validated(answer.ok, ret)
               /\ UNCHANGED <<spec_doc, compiled_kernel_name, spec_file, resolver_call, step_log, world>>

\* The archives of todo that are not unpacked because their destination
\* exists: none without --data-no-unpack-existing.
unpack_skipped_never(existing, no_unpack_existing) == {}

unpack_skipped(existing, no_unpack_existing) ==
    IF no_unpack_existing THEN existing ELSE {}

\* The archives unarchive is called for, in order: the loop leaves out the
\* skipped ones and returns at the first archive that fails to unpack.
RECURSIVE unpack_plan(_, _, _)
unpack_plan(todo, skipped, failing) ==
    IF todo = <<>> THEN <<>>
    ELSE IF Head(todo) \in skipped THEN unpack_plan(Tail(todo), skipped, failing)
    ELSE IF Head(todo) \in failing THEN <<Head(todo)>>
    ELSE <<Head(todo)>> \o unpack_plan(Tail(todo), skipped, failing)

\* The two export files are saved one after the other; the first failure
\* ends the step.
ExportStages == {"first_failed", "second_failed", "saved"}

exports_calls(stage) ==
    IF stage = "first_failed"
    THEN <<Call("save_exports_file", "nbw-spec-exports.sh", "nonzero")>>
    ELSE <<Call("save_exports_file", "nbw-spec-exports.sh", "ok"),
           Call("save_exports_file", "nbw-pantry-exports.sh",
                IF stage = "saved" THEN "ok" ELSE "nonzero")>>

\* _data_unpack: the symlinks unless --data-no-symlinks, the archives in
\* order, the two export files, the registration of the environment (a
\* failure of which is only a warning).
_data_unpack(ret) ==
    \E failing \in SUBSET Range(Assets), stage \in ExportStages, registered \in BOOLEAN :
       LET skipped == unpack_skipped(world.unpacked,
                                     "data_no_unpack_existing" \in config.flags)
           plan == unpack_plan(Assets, skipped, failing)
           unpack_failed == plan # <<>> /\ plan[Len(plan)] \in failing
           symlinks == IF "data_no_symlinks" \in config.flags THEN <<>>
                       ELSE <<Call("symlink_install_data", "-", "ok")>>
           unarchived == [i \in 1..Len(plan) |->
                            Call("unarchive", plan[i],
                                 IF plan[i] \in failing THEN "nonzero" ELSE "ok")]
           register == <<Call("register_environment", resolved_kname,
                              IF registered THEN "ok" ELSE "warning")>>
       IN /\ external' =
                external \o symlinks \o unarchived \o
                   (IF unpack_failed THEN <<>>
                    ELSE exports_calls(stage) \o
                            (IF stage = "saved" THEN register ELSE <<>>))
          /\ world' = [world EXCEPT !.unpacked =
                          world.unpacked \cup (Range(plan) \ failing)]
          /\ ret = IF unpack_failed \/ stage # "saved" THEN "False" ELSE "True"
          /\ UNCHANGED <<spec_doc, compiled_kernel_name, spec_file, resolver_call, step_log>>

\* _inject_spi: the injector writes the requirements and the data exports of
\* the specification into the local SPI clone.
_inject_spi(ret) ==
    /\ external' = external \o <<Call("inject", resolved_kname,
                                       CASE ret = "True" -> "ok"
                                         [] ret = "False" -> "nonzero"
                                         [] OTHER -> "raise")>>
    /\ UNCHANGED <<spec_doc, compiled_kernel_name, spec_file, resolver_call, step_log, world>>

\* RefdataValidator.get_data_urls(data_select): the archives of the asset
\* index whose URL matches the regular expression, in the order of the index.
get_data_urls(selected) == SelectSeq(Assets, LAMBDA a : a \in selected)

\* The lines _data_list prints: `for url in urls[:-1]`.
listed_urls(urls) == SubSeq(urls, 1, Len(urls) - 1)

\* _data_list: the selected archives are fetched from the index and printed
\* with print(); the step returns True.
_data_list(ret) ==
    \E selected \in SUBSET Range(Assets) :
       LET urls == get_data_urls(selected)
           lines == listed_urls(urls)
       IN /\ external' =
                external \o [i \in 1..Len(urls) |-> Call("get_data_urls", urls[i], "ok")]
                         \o [i \in 1..Len(lines) |-> Call("print", lines[i], "ok")]
          /\ ret = "True"
          /\ UNCHANGED <<spec_doc, compiled_kernel_name, spec_file, resolver_call, step_log, world>>

\* What one call of step fn does to the document, the disk and the logs.
step_effect(fn, ret) ==
    CASE fn = "_prepare_all_repositories" -> _prepare_all_repositories(TRUE, ret)
      [] fn = "_prepare_all_repositories_locked" -> _prepare_all_repositories(FALSE, ret)
      [] fn = "_compile_requirements" -> _compile_requirements(ret)
      [] fn = "_initialize_environment" -> _initialize_environment(ret)
      [] fn = "_install_packages" -> _install_packages(ret)
      [] fn = "_uninstall_packages" -> _uninstall_packages(ret)
      [] fn = "_test_imports" -> _test_imports(ret)
      [] fn = "_delete_environment" -> _delete_environment(ret)
      [] fn = "_delete_repos" -> _delete_repos(ret)
      [] fn = "_data_unpack" /\ ~LacksData(fn) -> _data_unpack(ret)
      [] fn = "_validate_spec" -> _validate_spec(ret)
      [] fn = "_data_collect" -> _data_collect(ret)
      [] fn = "_data_update" -> _data_update(ret)
      [] fn = "_save_final_spec" -> _save_spec(~spec_ignore_hash, ret)
      [] fn = "_update_spec_sha256" -> _save_spec(TRUE, ret)
      [] fn = "_reset_spec" -> _reset_spec(ret)
      [] fn = "_data_reset_spec" -> _data_reset_spec(ret)
      [] fn = "_finalize_dev_overrides" -> _finalize_dev_overrides(ret)
      [] fn = "_data_validate" -> _data_validate(ret)
      [] fn = "_data_list" /\ ~LacksData(fn) -> _data_list(ret)
      [] fn = "_inject_spi" -> _inject_spi(ret)
      [] LacksData(fn) ->
            /\ ret = "raise"
            /\ UNCHANGED <<spec_doc, compiled_kernel_name, spec_file, resolver_call, step_log, external, world>>
      [] fn \in ReturnsTrue /\ ~LacksData(fn) ->
            /\ ret # "False"
            /\ UNCHANGED <<spec_doc, compiled_kernel_name, spec_file, resolver_call, step_log, external, world>>
      [] fn \in OnlyPrints ->
            /\ ret = "True"
            /\ UNCHANGED <<spec_doc, compiled_kernel_name, spec_file, resolver_call, step_log, external, world>>
      [] OTHER ->
            UNCHANGED <<spec_doc, compiled_kernel_name, spec_file, resolver_call, step_log, external, world>>

\* A caller that puts the document and the disk back as the run found them
\* when the step did not return True.
Step_rolled_back(fn, ret) ==
    IF ret = "True" THEN step_effect(fn, ret)
    ELSE /\ spec_doc' = spec_loaded
         /\ world' = EmptyWorld
         /\ UNCHANGED <<compiled_kernel_name, spec_file, resolver_call, step_log, external>>

\* `if not step():` in run_workflow and `if not step():` in
\* _run_explicit_steps: the step is called and what it did stays.
Step(fn, ret) == step_effect(fn, ret)

\* The record of one executed step.
Executed(phase, w, fn, ret) == [phase |-> phase, wf |-> w, step |-> fn, ret |-> ret]

\* A main without the try block: the exception leaves the process, which
\* dies with a traceback.
Escapes_uncaught(fn) ==
    /\ result' = "crash"
    /\ exit_code' = 1
    /\ pc' = "done"
    /\ UNCHANGED <<wf_idx, step_idx, ex_idx, wf_results, log>>

\* NotebookWrangler.main: an exception that escapes _main_uncaught_core is
\* logged and main returns False.
Escapes(fn) ==
    /\ Finish("failure")
    /\ log' = log \cup {[level |-> "exception", msg |-> "Error during curation", about |-> "main"]}
    /\ UNCHANGED <<wf_idx, step_idx, ex_idx, wf_results>>

---------------------------------------------------------------------------
(* wrangler.py: the named workflows *)

\* A workflow loop that goes on to the explicit steps when a workflow fails.
workflow_returned_then_explicit(w, ok, lines) ==
    /\ wf_results' = Append(wf_results, [wf |-> w, ok |-> ok])
    /\ IF ~ok
       THEN /\ pc' = "explicit"
            /\ log' = log \cup lines
            /\ UNCHANGED <<wf_idx, step_idx, ex_idx, result, exit_code>>
       ELSE /\ wf_idx' = wf_idx + 1
            /\ step_idx' = 1
            /\ pc' = loop_pc(wf_idx + 1)
            /\ log' = log \cup lines
            /\ UNCHANGED <<ex_idx, result, exit_code>>

\* A workflow loop that does not look at what the workflow returned.
workflow_returned_ignored(w, ok, lines) ==
    /\ wf_results' = Append(wf_results, [wf |-> w, ok |-> ok])
    /\ wf_idx' = wf_idx + 1
    /\ step_idx' = 1
    /\ pc' = loop_pc(wf_idx + 1)
    /\ log' = log \cup lines
    /\ UNCHANGED <<ex_idx, result, exit_code>>

\* The loop of _main_uncaught_core once workflow w has returned ok: a failed
\* workflow ends the run with failure, else the next workflow is dispatched.
\* lines are the messages the workflow logged.
workflow_returned(w, ok, lines) ==
    /\ wf_results' = Append(wf_results, [wf |-> w, ok |-> ok])
    /\ IF ~ok
       THEN /\ Finish("failure")
            /\ log' = log \cup lines \cup
                        {[level |-> "error", msg |-> "Workflow failed.  Exiting...",
                          about |-> w]}
            /\ UNCHANGED <<wf_idx, step_idx, ex_idx>>
       ELSE /\ wf_idx' = wf_idx + 1
            /\ step_idx' = 1
            /\ pc' = loop_pc(wf_idx + 1)
            /\ log' = log \cup lines
            /\ UNCHANGED <<ex_idx, result, exit_code>>

\* requires_branch_name of _inject_spi_workflow
requires_branch_name == config.flags \cap SpiFlags # {}

\* What the _run_*_workflow method of w returns once run_workflow has run all
\* its steps: True, except that --inject-spi with an SPI automation flag goes
\* on to branch, build, commit, push and PR.
workflow_completed(w) ==
    IF w = "inject_spi" /\ requires_branch_name
    THEN /\ pc' = "spi_followon"
         /\ log' = log \cup {[level |-> "info", msg |-> "Workflow completed.", about |-> w]}
         /\ UNCHANGED <<wf_idx, step_idx, ex_idx, wf_results, result, exit_code>>
    ELSE workflow_returned(w, TRUE,
            {[level |-> "info", msg |-> "Workflow completed.", about |-> w]})

\* A run_workflow that goes on to the next step when a step returns False.
run_workflow_no_abort(w, fn, ret) ==
    CASE ret = "raise" -> Escapes(fn)
      [] OTHER ->
            IF step_idx < Len(workflow_steps(w))
            THEN /\ step_idx' = step_idx + 1
                 /\ UNCHANGED <<pc, wf_idx, ex_idx, wf_results, log, result, exit_code>>
            ELSE workflow_completed(w)

\* run_workflow after step fn of workflow w did ret: the first step that
\* returns False ends the workflow, which returns False.
run_workflow(w, fn, ret) ==
    CASE ret = "raise" -> Escapes(fn)
      [] ret = "False" ->
            workflow_returned(w, FALSE,
               {[level |-> "error", msg |-> "FAILED Workflow Step", about |-> fn]})
      [] OTHER ->
            IF step_idx < Len(workflow_steps(w))
            THEN /\ step_idx' = step_idx + 1
                 /\ UNCHANGED <<pc, wf_idx, ex_idx, wf_results, log, result, exit_code>>
            ELSE workflow_completed(w)

\* A reinstall that asks for nothing.
requires_nothing(w) == FALSE

\* _run_reinstall_spec_workflow: `if not outputs_exist("mamba_spec",
\* "pip_compiler_output")`, before run_workflow is called.
requires_precompiled_spec(w) ==
    w = "reinstall" /\ ~outputs_exist({"mamba_spec", "pip_compiler_output"})

\* The loop of _main_uncaught_core takes the next workflow of config.workflows:
\* an unknown name ends the run; --reinstall without a precompiled out section
\* returns False before run_workflow; else run_workflow starts.
DispatchWorkflow ==
    /\ pc = "dispatch"
    /\ LET w == config.workflows[wf_idx]
       IN IF w \notin workflow_map
          THEN /\ Finish("failure")
               /\ log' = log \cup {[level |-> "error", msg |-> "Undefined workflow", about |-> w]}
               /\ UNCHANGED <<wf_idx, step_idx, ex_idx, wf_results>>
          ELSE IF requires_precompiled_spec(w)
          THEN workflow_returned(w, FALSE,
                  {[level |-> "error", msg |-> "This workflow requires a precompiled spec",
                    about |-> w]})
          ELSE /\ pc' = "workflow"
               /\ step_idx' = 1
               /\ log' = log \cup {[level |-> "info", msg |-> "Running workflow", about |-> w]}
               /\ UNCHANGED <<wf_idx, ex_idx, wf_results, result, exit_code>>
    /\ UNCHANGED <<argv, spec_loaded, dev_adjustments, config, spec_doc,
                   compiled_kernel_name, trace, spec_file, resolver_call, step_log,
                   earlier_runs, invocation, external, world>>

\* run_workflow calls the next step of the current workflow.
WorkflowStep ==
    /\ pc = "workflow"
    /\ LET w == config.workflows[wf_idx]
           fn == workflow_steps(w)[step_idx]
       IN \E ret \in Rets :
             /\ Step(fn, ret)
             /\ trace' = Append(trace, Executed("workflow", w, fn, ret))
             /\ run_workflow(w, fn, ret)
    /\ UNCHANGED <<argv, spec_loaded, dev_adjustments, config, earlier_runs, invocation>>

\* The branch name the injector derives from the document.
InjectorBranch == "b_injector"

\* A branch choice that overrides the name --spi-branch gave.
spi_branch_overwritten(branch) == InjectorBranch

\* `if not self.config.spi_branch: self.config.spi_branch = ...`
spi_branch_used(branch) == PyOr(branch, InjectorBranch)

\* A follow-on that opens the pull request whenever --spi-pr is given.
spi_followon_plan_pr_unconditional(flags) ==
    <<"branch", "add_injected_files">> \o
       (IF "spi_prune" \in flags THEN <<"prune">> ELSE <<>>) \o
       (IF "spi_build" \in flags THEN <<"build">> ELSE <<>>) \o
       <<"commit">> \o
       (IF "spi_push" \in flags THEN <<"push">> ELSE <<>>) \o
       (IF "spi_pr" \in flags THEN <<"create_pr">> ELSE <<>>)

\* The injector operations _spi_cm_and_optional_build and _spi_commit_push_pr
\* call when each of them succeeds: branch, add_injected_files, prune and
\* build if requested, commit, then push if requested; without --spi-push
\* the method returns after the commit, with it create_pr follows if
\* requested.
spi_followon_plan(flags) ==
    <<"branch", "add_injected_files">> \o
       (IF "spi_prune" \in flags THEN <<"prune">> ELSE <<>>) \o
       (IF "spi_build" \in flags THEN <<"build">> ELSE <<>>) \o
       <<"commit">> \o
       (IF "spi_push" \in flags
        THEN <<"push">> \o (IF "spi_pr" \in flags THEN <<"create_pr">> ELSE <<>>)
        ELSE <<>>)

\* The rest of _inject_spi_workflow with an SPI automation flag:
\* _spi_cm_and_optional_build stores the injector's branch name in
\* config.spi_branch when --spi-branch gave none; then the planned operations
\* run until one returns False or raises.
SpiFollowOn ==
    /\ pc = "spi_followon"
    /\ config' = [config EXCEPT !.spi_branch = spi_branch_used(config.spi_branch)]
    /\ LET plan == spi_followon_plan(config.flags)
       IN \E failing_at \in 1..(Len(plan) + 1), ret \in Rets :
             /\ ret = "True" <=> failing_at = Len(plan) + 1
             /\ external' =
                   external \o
                      [i \in 1..(IF failing_at > Len(plan) THEN Len(plan) ELSE failing_at) |->
                          Call(plan[i], spi_branch_used(config.spi_branch),
                               IF i < failing_at THEN "ok"
                               ELSE IF ret = "raise" THEN "raise" ELSE "nonzero")]
             /\ IF ret = "raise"
                THEN Escapes("_spi_cm_and_optional_build")
                ELSE workflow_returned("inject_spi", ret = "True", {})
    /\ UNCHANGED <<argv, spec_loaded, dev_adjustments, spec_doc, compiled_kernel_name,
                   trace, spec_file, resolver_call, step_log, earlier_runs, invocation, world>>

---------------------------------------------------------------------------
(* wrangler.py: the explicit steps *)

\* A loop that returns True although a step returned False.
run_explicit_step_returns_true(i, fn, ret) ==
    CASE ret = "raise" -> Escapes(fn)
      [] ret = "False" ->
            /\ Finish("success")
            /\ UNCHANGED <<wf_idx, step_idx, ex_idx, wf_results, log>>
      [] OTHER ->
            /\ ex_idx' = i + 1
            /\ UNCHANGED <<pc, wf_idx, step_idx, wf_results, log, result, exit_code>>

\* A loop that goes on to the next flagged entry when a step returns False.
run_explicit_step_no_stop(i, fn, ret) ==
    CASE ret = "raise" -> Escapes(fn)
      [] OTHER ->
            /\ ex_idx' = i + 1
            /\ UNCHANGED <<pc, wf_idx, step_idx, wf_results, log, result, exit_code>>

\* The loop of _run_explicit_steps after the step fn of entry i did ret: a
\* step that returns False ends the loop, which returns False.
run_explicit_step(i, fn, ret) ==
    CASE ret = "raise" -> Escapes(fn)
      [] ret = "False" ->
            /\ Finish("failure")
            /\ log' = log \cup {[level |-> "error", msg |-> "FAILED Step ... stopping...",
                                 about |-> fn]}
            /\ UNCHANGED <<wf_idx, step_idx, ex_idx, wf_results>>
      [] OTHER ->
            /\ ex_idx' = i + 1
            /\ UNCHANGED <<pc, wf_idx, step_idx, wf_results, log, result, exit_code>>

\* _run_explicit_steps executes the next flagged entry of the table.
ExplicitStep ==
    /\ pc = "explicit"
    /\ next_flagged(ex_idx) # 0
    /\ LET i == next_flagged(ex_idx)
           fn == loop_entry(i).step
       IN \E ret \in Rets :
             /\ Step(fn, ret)
             /\ trace' = Append(trace, Executed("explicit", "-", fn, ret))
             /\ run_explicit_step(i, fn, ret)
    /\ UNCHANGED <<argv, spec_loaded, dev_adjustments, config, earlier_runs, invocation>>

\* _run_explicit_steps reaches the end of the table and returns True.
ExplicitDone ==
    /\ pc = "explicit"
    /\ next_flagged(ex_idx) = 0
    /\ Finish("success")
    /\ UNCHANGED <<argv, spec_loaded, dev_adjustments, config, spec_doc,
                   compiled_kernel_name, wf_idx,
                   step_idx, ex_idx, trace, wf_results, log, spec_file,
                   resolver_call, step_log, earlier_runs, invocation, external, world>>

Next ==
    \/ Construct
    \/ MainEnter
    \/ DispatchWorkflow
    \/ WorkflowStep
    \/ ExplicitStep
    \/ ExplicitDone

Spec == Init /\ [][Next]_vars

---------------------------------------------------------------------------
(* The lifecycle of one specification: runs with the options the steps read, *)
(* on documents in every state of curation, and a re-run after a failure.   *)

\* The workflow or explicit step a lifecycle command line selects.
LifecycleHeads ==
    {"curation", "reinstall", "reset_curation", "data_curation", "inject_spi",
     "clone_repos", "packages_compile", "spec_validate", "spec_update_hash",
     "data_collect", "data_update", "spec_reset", "data_reset_spec"}

\* The options that may follow it.
LifecycleOptions ==
    <<"spec_ignore_hash", "packages_omit_spi", "data_no_validation", "spi_push",
      "spi_branch">>

LifecycleLines ==
    {<<h>> \o SelectSeq(LifecycleOptions, LAMBDA o : o \in chosen) :
        h \in LifecycleHeads, chosen \in SUBSET Range(LifecycleOptions)}

InitLifecycle ==
    /\ argv \in LifecycleLines
    /\ spec_doc \in LifecycleDocuments
    /\ earlier_runs = <<>>
    /\ invocation = WithUri
    /\ world = EmptyWorld
    /\ ProcessStart

\* After a failed run the user runs the same command line again on the same
\* specification URI: a new process, which loads the document stored there.
Rerun ==
    /\ pc = "done"
    /\ result = "failure"
    /\ earlier_runs = <<>>
    /\ earlier_runs' = Append(earlier_runs, [trace |-> trace, doc |-> spec_doc])
    /\ spec_doc' = spec_file
    /\ spec_loaded' = spec_file
    /\ config' = from_args(parse_args(argv))
    /\ resolver_call' = NoCall
    /\ step_log' = {}
    /\ external' = <<>>
    /\ dev_adjustments' = 0
    /\ compiled_kernel_name' = NoName
    /\ pc' = "construct"
    /\ wf_idx' = 1
    /\ step_idx' = 1
    /\ ex_idx' = 1
    /\ trace' = <<>>
    /\ wf_results' = <<>>
    /\ log' = {}
    /\ result' = "none"
    /\ exit_code' = -1
    /\ UNCHANGED <<argv, spec_file, invocation, world>>

NextLifecycle ==
    \/ Next
    \/ SpiFollowOn
    \/ Rerun

SpecLifecycle == InitLifecycle /\ [][NextLifecycle]_vars

---------------------------------------------------------------------------
(* The process: cli.main from the parsed arguments to the exit code, on a    *)
(* disk that may already hold the environment and unpacked data, and with    *)
(* the user free to interrupt the run.                                       *)

\* Python's truth value of what _main holds in exit_code: "True" or "False"
\* from NotebookWrangler.main and log.exception, the integer 1 after
\* "Failed reading URI".
truthy(v) == v \in {"True", "1"}

\* cli._main: `return 1 if not exit_code else 0`
_main_returns(v) == IF truthy(v) THEN 0 ELSE 1

\* cli._main, `except KeyboardInterrupt: return log.error(...)`, and
\* sys.exit(int(main())): the logger's error() returns False, and int(False)
\* is 0.
cancelled_returns(logged) == IF truthy(logged) THEN 1 ELSE 0

\* The ways a process is started: --version; no URI and no NBW_SPEC; the URI
\* from NBW_SPEC; a URI that cannot be read; a URI that can.
Invocations ==
    {[WithUri EXCEPT !.version = TRUE],
     [WithUri EXCEPT !.spec_uri = FALSE],
     [WithUri EXCEPT !.spec_uri = FALSE, !.NBW_SPEC = TRUE],
     [WithUri EXCEPT !.readable = FALSE],
     WithUri}

\* The end of a process in cli.main or cli._main with outcome r and code c.
Exit(r, c) ==
    /\ result' = r
    /\ exit_code' = c
    /\ pc' = "done"

\* cli.main and cli._main up to the construction of the wrangler.
CliEntry ==
    /\ pc = "cli"
    /\ IF invocation.version
       THEN /\ Exit("version", 0)
            /\ UNCHANGED log
       ELSE IF ~invocation.spec_uri /\ ~invocation.NBW_SPEC
       THEN /\ Exit("no_spec", 1)
            /\ log' = log \cup {[level |-> "error", msg |-> "No wrangler spec given",
                                 about |-> "cli"]}
       ELSE IF ~invocation.readable
       THEN /\ Exit("unreadable", _main_returns("1"))
            /\ log' = log \cup {[level |-> "error", msg |-> "Failed reading URI:",
                                 about |-> "cli"]}
       ELSE /\ pc' = "construct"
            /\ UNCHANGED <<result, exit_code, log>>
    /\ UNCHANGED <<argv, spec_loaded, dev_adjustments, config, spec_doc,
                   compiled_kernel_name, wf_idx, step_idx, ex_idx, trace, wf_results,
                   spec_file, resolver_call, step_log, earlier_runs, invocation,
                   external, world>>

\* Where the run is while cli._main is inside its try block.
Running == pc \in {"construct", "main", "dispatch", "workflow", "spi_followon", "explicit"}

\* The user interrupts the run: KeyboardInterrupt is not an Exception, so it
\* passes NotebookWrangler.main and is caught in cli._main.
Interrupt ==
    /\ Running
    /\ Exit("cancelled", cancelled_returns("False"))
    /\ log' = log \cup {[level |-> "error", msg |-> "Operation cancelled by user",
                         about |-> "cli"]}
    /\ UNCHANGED <<argv, spec_loaded, dev_adjustments, config, spec_doc,
                   compiled_kernel_name, wf_idx, step_idx, ex_idx, trace, wf_results,
                   spec_file, resolver_call, step_log, earlier_runs, invocation,
                   external, world>>

\* The workflow or explicit step a process command line selects.
ProcessHeads ==
    {"curation", "reinstall", "data_reinstall", "reset_curation", "env_init",
     "packages_install", "test_imports", "data_validate", "data_unpack",
     "env_delete", "delete_repos", "data_collect", "data_list", "inject_spi"}

\* The options that may follow it.
ProcessOptions == <<"data_no_validation", "data_no_unpack_existing", "spi_push">>

\* --inject-spi with the SPI automation flags.
SpiLines ==
    {<<"inject_spi", "spi_pr">>, <<"inject_spi", "spi_push", "spi_pr">>,
     <<"inject_spi", "spi_prune", "spi_build">>,
     <<"inject_spi", "spi_prune", "spi_build", "spi_push", "spi_pr">>}

\* --packages-omit-spi with the workflows that prepare the repositories.
OmitSpiLines ==
    {<<w, "packages_omit_spi">> : w \in {"curation", "inject_spi", "submit_for_build"}}

ProcessLines ==
    {<<h>> \o SelectSeq(ProcessOptions, LAMBDA o : o \in chosen) :
        h \in ProcessHeads, chosen \in SUBSET Range(ProcessOptions)}
       \cup {<<"reinstall", "curation">>} \cup SpiLines \cup OmitSpiLines

\* A curated out section whose data block has no metadata yet.
CollectedOut == [CuratedOut EXCEPT !.data = "d_collected"]

\* An out section left by a compilation that failed after the mamba spec
\* was saved.
HalfCompiledOut == [CuratedOut EXCEPT !.pip_compiler_output = "none"]

\* The kernel names the documents lead to.
KernelNames == {"k_in", "k_out", "k_new"}

\* The environments under the root when the process starts: none, the ones
\* of the kernel names, or ones left by another specification whose names
\* end with a kernel name.
ListedEnvironments ==
    {{}, {env_path(n) : n \in KernelNames}, {env_path("old-" \o n) : n \in KernelNames}}

\* Specifications for the base environment, whose kernel is python3.
BaseDocuments ==
    {[Document(FALSE, FreshOut) EXCEPT !.kernel_name = k] : k \in {"base", "python3"}}

ProcessDocuments ==
    {Document(FALSE, out) : out \in {FreshOut, CuratedOut, CollectedOut, HalfCompiledOut}}
       \cup BaseDocuments

\* What the disk may hold when the process starts.
Worlds ==
    {[EmptyWorld EXCEPT !.env = e, !.unpacked = u] :
        e \in ListedEnvironments, u \in SUBSET Range(Assets)}

InitProcess ==
    /\ argv \in ProcessLines
    /\ spec_doc \in ProcessDocuments
    /\ invocation \in Invocations
    /\ world \in Worlds
    /\ earlier_runs = <<>>
    /\ config = from_args(parse_args(argv))
    /\ spec_loaded = spec_doc
    /\ spec_file = spec_doc
    /\ resolver_call = NoCall
    /\ step_log = {}
    /\ external = <<>>
    /\ dev_adjustments = 0
    /\ compiled_kernel_name = NoName
    /\ pc = "cli"
    /\ wf_idx = 1
    /\ step_idx = 1
    /\ ex_idx = 1
    /\ trace = <<>>
    /\ wf_results = <<>>
    /\ log = {}
    /\ result = "none"
    /\ exit_code = -1

NextProcess ==
    \/ CliEntry
    \/ Next
    \/ SpiFollowOn
    \/ Interrupt

SpecProcess == InitProcess /\ [][NextProcess]_vars

---------------------------------------------------------------------------
(* Properties *)

Last(q) == q[Len(q)]

\* The steps executed by _run_explicit_steps, in the order executed.
RECURSIVE StepsOf(_)
StepsOf(q) == IF q = <<>> THEN <<>> ELSE <<Head(q).step>> \o StepsOf(Tail(q))

ExplicitTrace == StepsOf(SelectSeq(trace, LAMBDA e : e.phase = "explicit"))

IsPrefix(p, q) == Len(p) <= Len(q) /\ \A i \in 1..Len(p) : p[i] = q[i]

\* The run has passed the dev-mode adjustment.
DevAdjusted == dev_adjustments > 0

CurationFamily == {"curation", "data_curation"}
ReinstallFamily == {"reinstall", "data_reinstall"}

\* C1: in a named workflow, the first step that returns failure is the last
\* step executed (no later step of the workflow runs) and the workflow
\* reports failure.
C1_WorkflowFailFast ==
    \A i \in 1..Len(trace) :
       (trace[i].phase = "workflow" /\ trace[i].ret = "False") =>
          /\ i = Len(trace)
          /\ wf_results # <<>>
          /\ Last(wf_results) = [wf |-> trace[i].wf, ok |-> FALSE]

\* C1 witness: a workflow whose second step failed with steps still to run.
C1_Witness ==
    /\ Len(trace) >= 2
    /\ Last(trace).phase = "workflow"
    /\ Last(trace).ret = "False"
    /\ trace[Len(trace) - 1].wf = Last(trace).wf
    /\ step_idx < Len(workflow_steps(Last(trace).wf))
    /\ result = "failure"

\* C2: once a selected workflow has failed, the run has ended with failure,
\* no later workflow was dispatched and no explicit step was executed.
C2_FailedWorkflowEndsRun ==
    \A k \in 1..Len(wf_results) :
       ~wf_results[k].ok =>
          /\ k = Len(wf_results)
          /\ pc = "done"
          /\ result = "failure"
          /\ \A i \in 1..Len(trace) :
                /\ trace[i].phase = "workflow"
                /\ \E j \in 1..k : trace[i].wf = wf_results[j].wf

\* C2 witness: a workflow failed while a later workflow was selected.
C2_Witness ==
    /\ wf_results # <<>>
    /\ ~Last(wf_results).ok
    /\ Len(config.workflows) > Len(wf_results)
    /\ trace # <<>>

\* C3: the run reports success only if every selected workflow returned
\* success and the step of every flagged entry of the table returned success.
C3_SuccessOnlyIfAllSucceeded ==
    result = "success" =>
       /\ \A w \in Range(config.workflows) :
             \E k \in 1..Len(wf_results) : wf_results[k] = [wf |-> w, ok |-> TRUE]
       /\ \A i \in 1..Len(flags_and_steps) :
             flags_and_steps[i].flags \cap config.flags # {} =>
                \E j \in 1..Len(trace) :
                   trace[j] = Executed("explicit", "-", flags_and_steps[i].step, "True")

\* C3 witness: a successful run of a workflow and an explicit step.
C3_Witness ==
    /\ result = "success"
    /\ config.workflows # <<>>
    /\ config.flags # {}

\* The steps _run_explicit_steps executes for a command line when every step
\* succeeds: the table's steps whose flag the command line sets.
ExplicitPlan(line) ==
    LET set == from_args(parse_args(line)).flags
    IN StepsOf(SelectSeq(flags_and_steps, LAMBDA e : e.flags \cap set # {}))

\* The command lines that give the flags of argv in another order.
Reorderings ==
    {s \in [1..Len(argv) -> Range(argv)] : Range(s) = Range(argv)}

\* C4: the explicit steps run in the order of the table: the executed
\* sequence is a prefix of the plan, the plan is the same for every order of
\* the flags on the command line, and packages-install runs before
\* test-imports and test-notebooks.
C4_ExplicitOrderFixed ==
    LET ran == ExplicitTrace
        plan == ExplicitPlan(argv)
    IN /\ pc = "construct" => \A line \in Reorderings : ExplicitPlan(line) = plan
       /\ ran # <<>> => IsPrefix(ran, plan)
       /\ \A i, j \in 1..Len(ran) :
             (/\ ran[i] = "_install_packages"
              /\ ran[j] \in {"_test_imports", "_test_notebooks"}) => i < j

\* C4 witness: the test flag was given before the install flag, and install
\* ran first.
C4_Witness ==
    /\ argv = <<"test_imports", "packages_install">>
    /\ ExplicitTrace = <<"_install_packages", "_test_imports">>

\* The steps of the other flags of the CLI's Environment group.
EnvOperations ==
    {"_initialize_environment", "_pack_environment", "_unpack_environment",
     "_register_environment", "_unregister_environment", "_cleanup_kernels",
     "_env_compact"}

\* The entries of the table after env_delete.
AfterDelete == {"_cleanup_kernels", "_env_compact"}

\* C5 as claimed: among the explicit steps, no other environment operation
\* runs after environment deletion.
C5_DeleteAfterAllEnvOps ==
    LET ran == ExplicitTrace
    IN \A i, j \in 1..Len(ran) :
          (ran[i] = "_delete_environment" /\ ran[j] \in EnvOperations) => j < i

\* C5 amended: among the explicit steps, environment deletion runs after
\* init, pack, unpack, register and unregister, and before kernel cleanup and
\* compact.
C5_DeleteAfterEnvSetupOps ==
    LET ran == ExplicitTrace
    IN \A i, j \in 1..Len(ran) :
          ran[i] = "_delete_environment" =>
             /\ ran[j] \in EnvOperations \ AfterDelete => j < i
             /\ ran[j] \in AfterDelete => i < j

\* C5 witness: --env-delete was given before --env-register, and register
\* ran first.
C5_Witness ==
    /\ argv = <<"env_delete", "env_register">>
    /\ ExplicitTrace = <<"_register_environment", "_delete_environment">>

\* C6: an explicit step that returns failure is the last step executed and
\* the run reports failure.
C6_ExplicitFailFast ==
    \A i \in 1..Len(trace) :
       (trace[i].phase = "explicit" /\ trace[i].ret = "False") =>
          /\ i = Len(trace)
          /\ pc = "done"
          /\ result = "failure"

\* C6 witness: the first of two flagged explicit steps failed.
C6_Witness ==
    /\ Len(ExplicitPlan(argv)) = 2
    /\ ExplicitTrace = <<ExplicitPlan(argv)[1]>>
    /\ Last(trace).ret = "False"

\* C7: explicit steps run only once every selected workflow has returned
\* success, never before or between workflow steps, and they run when no
\* workflow was selected.
C7_ExplicitAfterWorkflows ==
    /\ (pc = "explicit" \/ ExplicitTrace # <<>>) =>
          /\ Len(wf_results) = Len(config.workflows)
          /\ \A k \in 1..Len(wf_results) :
                wf_results[k] = [wf |-> config.workflows[k], ok |-> TRUE]
    /\ \A i \in 1..(Len(trace) - 1) :
          trace[i].phase = "explicit" => trace[i + 1].phase = "explicit"
    /\ (DevAdjusted /\ config.workflows = <<>> /\ pc # "done") => pc = "explicit"

\* C7 witness: an explicit step executed after the steps of a workflow.
C7_Witness ==
    /\ trace # <<>>
    /\ trace[1].phase = "workflow"
    /\ Last(trace).phase = "explicit"

\* This run's compile step has produced a name.
Compiled ==
    \E i \in 1..Len(trace) :
       trace[i].step = "_compile_requirements" /\ trace[i].ret # "raise"

\* C8: resolved_kname is the name this run's compile step produced if it
\* produced one, whatever the out and input sections say; else the
\* kernel_name of the out section if there is one; else the input name.
C8_KernelNamePrecedence ==
    /\ Compiled =>
          /\ resolved_kname \in CompiledNames
          /\ resolved_kname = compiled_kernel_name
    /\ (~Compiled /\ spec_doc.out.kernel_name # NoName) =>
          resolved_kname = spec_doc.out.kernel_name
    /\ (~Compiled /\ spec_doc.out.kernel_name = NoName) =>
          resolved_kname = spec_doc.kernel_name

\* C8 witness: a successful compile on a document whose out section and
\* input section name other kernels.
C8_Witness ==
    /\ \E i \in 1..Len(trace) :
          trace[i].step = "_compile_requirements" /\ trace[i].ret = "True"
    /\ spec_loaded.out.kernel_name = "k_out"
    /\ spec_loaded.kernel_name = "k_in"
    /\ resolved_kname = "k_new"

C10_ReinstallExplicitDevFlagged ==
    (/\ DevAdjusted
     /\ Range(config.workflows) \cap ReinstallFamily # {}
     /\ "dev" \in Range(argv)
     /\ ~spec_loaded.dev_overrides) =>
        /\ \E m \in log : m.level \in {"warning", "error"} /\ m.about = "dev"
        /\ pc # "main"

---------------------------------------------------------------------------
(* Properties of the lifecycle *)

\* The run is inside _main_uncaught_core, past the dev-mode adjustment.
Dispatching == pc \in {"dispatch", "workflow", "spi_followon", "explicit"}

\* C11 as claimed: from the start of the run the configuration is the one
\* built from the command line, except for dev, which is adjusted once,
\* before the first workflow is dispatched.
C11_ConfigFrozenExceptDev ==
    LET start == from_args(parse_args(argv))
    IN /\ [config EXCEPT !.dev = start.dev] = start
       /\ dev_adjustments <= 1
       /\ Dispatching => dev_adjustments = 1
       /\ pc \in {"construct", "main"} => dev_adjustments = 0 /\ config.dev = start.dev

\* C11 amended: the configuration is the one built from the command line
\* except for dev, adjusted once before the first workflow is dispatched, and
\* for spi_branch, which holds the injector's branch name once the
\* --inject-spi workflow has gone on to its SPI automation and --spi-branch
\* gave no name.
C11_ConfigFrozenExceptDevAndBranch ==
    LET start == from_args(parse_args(argv))
    IN /\ [config EXCEPT !.dev = start.dev, !.spi_branch = start.spi_branch] = start
       /\ config.spi_branch # start.spi_branch =>
             /\ start.spi_branch = NoName
             /\ config.spi_branch = InjectorBranch
             /\ "inject_spi" \in Range(config.workflows)
             /\ requires_branch_name
             /\ trace # <<>>
       /\ dev_adjustments <= 1
       /\ Dispatching => dev_adjustments = 1
       /\ pc \in {"construct", "main"} => dev_adjustments = 0 /\ config.dev = start.dev

\* C11 witness: --inject-spi --spi-push --spi-branch ran its SPI automation
\* to the end and the configuration still holds the branch of the command line.
C11_Witness ==
    /\ argv = <<"inject_spi", "spi_push", "spi_branch">>
    /\ result = "success"
    /\ Last(trace).step = "_inject_spi"
    /\ config.spi_branch = CliBranch

\* The step taken is a call of step fn.
Calls(fn) == trace' # trace /\ trace' # <<>> /\ Last(trace').step = fn

\* C12: a locked preparation (the first step of --reinstall) asks the
\* resolver, for each notebook repository the out section holds a resolved
\* ref for, for that ref; when the out section holds no resolved ref it asks
\* for the refs of the input section and logs the warning; in both cases the
\* step goes on to the resolver.
C12_LockedUsesRecordedRefs ==
    [][Calls("_prepare_all_repositories_locked") =>
          LET recorded == get_output_repository_refs
              requested == resolver_call'.requested
          IN /\ resolver_call'.made /\ ~resolver_call'.floating
             /\ Repos \subseteq DOMAIN requested
             /\ \A r \in DOMAIN recorded : requested[r] = recorded[r]
             /\ DOMAIN recorded = {} =>
                   /\ \A r \in Repos : requested[r] = get_repository_refs[r]
                   /\ LockedFallbackWarning \in step_log'
             /\ DOMAIN recorded # {} =>
                   /\ \A r \in DOMAIN recorded : requested[r] # get_repository_refs[r]
                   /\ step_log' = step_log]_vars

\* C12 witness: --reinstall on a curated document prepared the repositories
\* at the recorded commits although the input section names branches.
C12_Witness ==
    /\ trace # <<>>
    /\ Last(trace) = Executed("workflow", "reinstall", "_prepare_all_repositories_locked", "True")
    /\ spec_loaded.out.repositories = [r \in Repos |-> "c_old"]
    /\ \A r \in Repos : resolver_call.requested[r] = "c_old"
    /\ spec_doc.repositories["nb1"] = "main"

\* C13: a floating preparation asks the resolver, for every notebook
\* repository and for the SPI, for the ref of the input section, never for a
\* commit recorded in the out section, in every run.
C13_FloatingUsesInputRefs ==
    [][Calls("_prepare_all_repositories") =>
          LET requested == resolver_call'.requested
          IN /\ resolver_call'.made /\ resolver_call'.floating
             /\ Repos \subseteq DOMAIN requested
             /\ \A t \in DOMAIN requested :
                   /\ requested[t] = IF t = "spi" THEN PyOr(spec_doc.spi, "main")
                                     ELSE get_repository_refs[t]
                   /\ requested[t] \notin Commits]_vars

\* C13 witness: --curate on a curated document asked for the branches again
\* and recorded the commit the branch has advanced to.
C13_Witness ==
    /\ trace # <<>>
    /\ Last(trace) = Executed("workflow", "curation", "_prepare_all_repositories", "True")
    /\ spec_loaded.out.repositories["nb1"] = "c_old"
    /\ spec_loaded.out.spi = "c_old"
    /\ resolver_call.requested["nb1"] = "main"
    /\ resolver_call.requested["spi"] = "main"
    /\ spec_doc.out.repositories["nb1"] = "c_new"

PrepareSteps == {"_prepare_all_repositories", "_prepare_all_repositories_locked"}

\* C14: after a repository preparation that returned True, out.repositories
\* holds, for every repository the resolver answered for, the commit it
\* answered, and out.spi the commit answered for the SPI.
C14_ResolvedRefsWritten ==
    (/\ trace # <<>>
     /\ Last(trace).step \in PrepareSteps
     /\ Last(trace).ret = "True") =>
        LET resolved == resolver_call.resolved
        IN /\ Repos \subseteq DOMAIN resolved
           /\ \A r \in Repos :
                 /\ spec_doc.out.repositories[r] = resolved[r]
                 /\ resolved[r] \in Commits
           /\ "spi" \in DOMAIN resolved => spec_doc.out.spi = resolved["spi"]

\* C14 witness: --clone-repos on a document that recorded the old commit of
\* branch main: the out section now holds the commit main has advanced to.
C14_Witness ==
    /\ trace # <<>>
    /\ Last(trace) = Executed("explicit", "-", "_prepare_all_repositories", "True")
    /\ spec_loaded.out.repositories["nb1"] = "c_old"
    /\ resolver_call.requested["nb1"] = "main"
    /\ resolver_call.resolved["nb1"] = "c_new"
    /\ spec_doc.out.repositories["nb1"] = "c_new"
    /\ spec_doc.out.spi = "c_new"

\* C15: when the resolver raises RuntimeError the preparation step returns
\* False, the run ends with failure and the document, in memory and at the
\* specification URI, is as it was before the step.
C15_ResolverErrorLeavesDocument ==
    [][((Calls("_prepare_all_repositories") \/ Calls("_prepare_all_repositories_locked"))
          /\ resolver_call'.error) =>
             /\ Last(trace').ret = "False"
             /\ spec_doc' = spec_doc
             /\ spec_file' = spec_file
             /\ pc' = "done"
             /\ result' = "failure"]_vars

\* C15 witness: the resolver raised in the first step of --curate on a fresh
\* document, which still has an empty out section.
C15_Witness ==
    /\ trace # <<>>
    /\ Last(trace) = Executed("workflow", "curation", "_prepare_all_repositories", "False")
    /\ resolver_call.error
    /\ spec_doc.out = FreshOut
    /\ result = "failure"

\* The steps of --reinstall that consume the document.
ReinstallConsumers ==
    {"_prepare_all_repositories_locked", "_initialize_environment", "_install_packages"}

\* _validate_spec has returned True in the --reinstall workflow of this run.
ReinstallValidated ==
    \E j \in 1..Len(trace) :
       trace[j] = Executed("workflow", "reinstall", "_validate_spec", "True")

\* C16: in the --reinstall workflow no repository is prepared, no environment
\* created and no package installed before _validate_spec has returned True,
\* the out section and the digest are as loaded until then, and a document
\* whose digest does not match its content makes the workflow fail unless
\* spec_ignore_hash is set.
C16_ReinstallValidatesFirst ==
    /\ \A i \in 1..Len(trace) :
          (trace[i].wf = "reinstall" /\ trace[i].step \in ReinstallConsumers) =>
             \E j \in 1..(i - 1) :
                trace[j] = Executed("workflow", "reinstall", "_validate_spec", "True")
    /\ (/\ pc = "workflow"
        /\ config.workflows[wf_idx] = "reinstall"
        /\ ~ReinstallValidated) =>
           /\ spec_doc.out = spec_loaded.out
           /\ spec_doc.sha256 = spec_loaded.sha256
    /\ (~validate_sha256(spec_loaded) /\ ~spec_ignore_hash) =>
          \A k \in 1..Len(wf_results) : wf_results[k] # [wf |-> "reinstall", ok |-> TRUE]

\* The last part of C16 alone: a document loaded with a digest that does not
\* match never gets through --reinstall without spec_ignore_hash.
C16_MismatchFailsReinstall ==
    (~validate_sha256(spec_loaded) /\ ~spec_ignore_hash) =>
       \A k \in 1..Len(wf_results) : wf_results[k] # [wf |-> "reinstall", ok |-> TRUE]

\* C17: when _validate_spec runs on a document whose digest does not match
\* its content, it does not return True unless spec_ignore_hash is set, and
\* then the warning has been logged.
C17_DigestMismatchFailsValidation ==
    (/\ trace # <<>>
     /\ Last(trace).step = "_validate_spec"
     /\ ~validate_sha256(spec_doc)) =>
        /\ ~spec_ignore_hash => Last(trace).ret # "True"
        /\ Last(trace).ret = "True" =>
              /\ spec_ignore_hash
              /\ IgnoringHashWarning \in step_log

\* C17 witness: --spec-validate alone on a document edited by hand returned
\* False and the run failed.
C17_Witness ==
    /\ argv = <<"spec_validate">>
    /\ ~validate_sha256(spec_doc)
    /\ trace = <<Executed("explicit", "-", "_validate_spec", "False")>>
    /\ result = "failure"

\* With --spec-ignore-hash the same step passes on such a document.
C17_IgnoredHashPasses ==
    /\ argv = <<"spec_validate", "spec_ignore_hash">>
    /\ ~validate_sha256(spec_doc)
    /\ trace = <<Executed("explicit", "-", "_validate_spec", "True")>>
    /\ result = "success"

\* C18: every step that changes the out section leaves a document whose
\* digest matches its content, unless spec_ignore_hash is set.
C18_DigestFollowsOutMutation ==
    [][(/\ trace' # trace
        /\ trace' # <<>>
        /\ spec_doc'.out # spec_doc.out) =>
           (validate_sha256(spec_doc') \/ spec_ignore_hash)]_vars

\* The same for the steps that pass add_sha256 = not spec_ignore_hash to
\* revise_and_save, and for the two resets.
C18_DigestFollowsPrepareCompileReset ==
    [][(/\ trace' # trace
        /\ trace' # <<>>
        /\ Last(trace').step \notin {"_data_collect", "_data_update"}
        /\ spec_doc'.out # spec_doc.out) =>
           (validate_sha256(spec_doc') \/ spec_ignore_hash)]_vars

\* --data-collect on a saved curated document: the data block is replaced
\* and written next to the specification with the digest of the old content.
C18_StaleDigestAfterDataCollect ==
    /\ trace = <<Executed("explicit", "-", "_data_collect", "True")>>
    /\ validate_sha256(spec_loaded)
    /\ ~spec_ignore_hash
    /\ spec_doc.out.data # spec_loaded.out.data
    /\ spec_doc.sha256 = spec_loaded.sha256
    /\ ~validate_sha256(spec_doc)
    /\ spec_file = spec_doc

\* C19: after the _reset_spec step, alone or in the reset-curation workflow,
\* get_output_data("data") is the data block from before the reset and
\* kernel_name and every other field of out are None.
C19_ResetKeepsOnlyData ==
    [][Calls("_reset_spec") =>
          /\ spec_doc'.out.data = spec_doc.out.data
          /\ spec_doc'.out.kernel_name = NoName
          /\ \A k \in DOMAIN spec_doc'.out \ {"data"} :
                spec_doc'.out[k] = FreshOut[k]]_vars

\* C19 witness: --reset-curation on a curated document with a data block has
\* run _reset_spec: the data block is still there, the kernel name is gone.
C19_Witness ==
    /\ trace # <<>>
    /\ Last(trace) = Executed("workflow", "reset_curation", "_reset_spec", "True")
    /\ spec_loaded.out = CuratedOut
    /\ get_output_data("data") = "d_old"
    /\ get_output_data("kernel_name") = NoName
    /\ get_output_data("mamba_spec") = "none"

\* The step alone (--spec-reset) on the same document.
C19_ResetAlone ==
    /\ trace = <<Executed("explicit", "-", "_reset_spec", "True")>>
    /\ spec_loaded.out = CuratedOut
    /\ spec_doc.out = [FreshOut EXCEPT !.data = "d_old"]

\* The steps that leave the document alone, and the steps whose work is the
\* checkout of the repositories and the compilation of the requirements.
EnvironmentSteps == {"_initialize_environment", "_install_packages"}

PreparationWork == {"_prepare_all_repositories", "_compile_requirements"}

\* The steps that returned True in a trace.
completed_steps(tr) == {tr[i].step : i \in {j \in 1..Len(tr) : tr[j].ret = "True"}}

\* The document a re-run loads holds what the completed steps of the failed
\* run produced, when the run failed in a step that leaves the document alone.
C20_RerunLoadsCompletedResults ==
    (/\ earlier_runs # <<>>
     /\ earlier_runs[1].trace # <<>>
     /\ Last(earlier_runs[1].trace).step \in EnvironmentSteps) =>
        spec_loaded.out = earlier_runs[1].doc.out

\* A re-run does not execute again the preparation or the compilation that
\* returned True in the failed run.
C20_RerunSkipsCompletedWork ==
    earlier_runs # <<>> =>
       \A i \in 1..Len(trace) :
          trace[i].step \in PreparationWork =>
             trace[i].step \notin completed_steps(earlier_runs[1].trace)

\* C20: a re-run on the same specification URI after a failed run loads a
\* document that holds the results of the steps that had completed, and does
\* not repeat their work.
C20_RerunResumes ==
    /\ C20_RerunLoadsCompletedResults
    /\ C20_RerunSkipsCompletedWork

\* --curate on a fresh document failed at _install_packages; the same command
\* again loaded the fresh document and has prepared and compiled again.
C20_CurationStartsOver ==
    /\ argv = <<"curation">>
    /\ earlier_runs # <<>>
    /\ Len(earlier_runs[1].trace) = 4
    /\ earlier_runs[1].trace[4] = Executed("workflow", "curation", "_install_packages", "False")
    /\ earlier_runs[1].doc.out.kernel_name # NoName
    /\ spec_loaded.out = FreshOut
    /\ Len(trace) = 2
    /\ trace[1] = Executed("workflow", "curation", "_prepare_all_repositories", "True")
    /\ trace[2] = Executed("workflow", "curation", "_compile_requirements", "True")

---------------------------------------------------------------------------
(* Properties of the process *)

\* The out fields and the parts of the disk a step writes itself.
out_written_by(fn) ==
    CASE fn \in PrepareSteps -> {"repositories", "spi", "test_notebooks"}
      [] fn = "_compile_requirements" -> {"kernel_name", "mamba_spec", "pip_compiler_output"}
      [] fn \in {"_data_collect", "_data_update", "_data_reset_spec"} -> {"data"}
      [] fn = "_reset_spec" -> DOMAIN FreshOut \ {"data"}
      [] OTHER -> {}

world_written_by(fn) ==
    CASE fn \in PrepareSteps \cup {"_delete_repos"} -> {"repos"}
      [] fn \in {"_initialize_environment", "_delete_environment"} -> {"env"}
      [] fn = "_data_unpack" -> {"unpacked"}
      [] OTHER -> {}

\* C21: a failing step leaves everything it does not write itself as the
\* earlier steps left it (out fields, the stored document, the environment,
\* the checkouts, the unpacked data), and what follows the failure (the
\* return from the workflow, from main, the exit) changes none of it.
C21_NoRollback ==
    [][/\ trace' = trace =>
             /\ spec_doc' = spec_doc
             /\ spec_file' = spec_file
             /\ world' = world
       /\ (trace' # trace /\ Last(trace').ret # "True") =>
             LET fn == Last(trace').step
             IN /\ \A k \in DOMAIN spec_doc.out \ out_written_by(fn) :
                      spec_doc'.out[k] = spec_doc.out[k]
                /\ \A k \in DOMAIN world \ world_written_by(fn) :
                      world'[k] = world[k]
                /\ spec_file' = spec_file]_vars

\* C21 witness: --curate on a fresh document failed at _install_packages;
\* the refs and the compiled package lists are in the document, the
\* environment exists and the repositories are checked out.
C21_Witness ==
    /\ argv = <<"curation">>
    /\ pc = "done"
    /\ result = "failure"
    /\ Len(trace) = 4
    /\ trace[4] = Executed("workflow", "curation", "_install_packages", "False")
    /\ spec_loaded.out = FreshOut
    /\ spec_doc.out.repositories["nb1"] = "c_new"
    /\ spec_doc.out.mamba_spec = "new"
    /\ spec_doc.out.pip_compiler_output = "new"
    /\ external[2] = [at |-> 3, cmd |-> "create_environment", arg |-> "k_new",
                      outcome |-> "ok"]
    /\ env_path("k_new") \in world.env
    /\ world.repos # NoRequest

\* The log entries of the two catch-all handlers: NotebookWrangler.main and
\* cli._main.
CaughtInMain == [level |-> "exception", msg |-> "Error during curation", about |-> "main"]

CaughtInCli == [level |-> "exception", msg |-> "Failed:", about |-> "init"]

\* C22: an exception raised by a step, by the SPI follow-on or by the
\* constructor of the wrangler is caught and logged, the run is a failure and
\* the exit code is 1; the process never ends in a raw exception.
C22_ExceptionsCaught ==
    /\ result # "crash"
    /\ (trace # <<>> /\ Last(trace).ret = "raise") =>
          /\ CaughtInMain \in log
          /\ pc = "done"
          /\ result = "failure"
    /\ (CaughtInMain \in log \/ CaughtInCli \in log) =>
          /\ pc = "done"
          /\ result = "failure"
          /\ exit_code = 1
    /\ CaughtInCli \in log => trace = <<>>

\* C22 witness: --packages-install ran into the timeout of the install
\* command; TimeoutExpired left the step and was caught in main.
C22_Witness ==
    /\ argv = <<"packages_install">>
    /\ trace = <<Executed("explicit", "-", "_install_packages", "raise")>>
    /\ Len(external) = 1
    /\ external[1].outcome = "timeout"
    /\ CaughtInMain \in log
    /\ result = "failure"
    /\ exit_code = 1

\* The constructor raised: caught in cli._main, no step was run.
C22_ConstructorRaised ==
    /\ CaughtInCli \in log
    /\ trace = <<>>
    /\ pc = "done"
    /\ exit_code = 1

\* C23: the exit code is 0 exactly when the run succeeded or only --version
\* was asked for, and 1 for every failure: no URI, unreadable URI, failed
\* workflow or step, caught exception, cancellation by the user.
C23_ExitCodeReflectsOutcome ==
    pc = "done" =>
       /\ exit_code \in {0, 1}
       /\ exit_code = 0 <=> result \in {"success", "version"}

\* The same without the unreadable URI and the cancellation.
C23_ExitCodeOfOtherOutcomes ==
    (pc = "done" /\ result \notin {"unreadable", "cancelled"}) =>
       /\ exit_code \in {0, 1}
       /\ exit_code = 0 <=> result \in {"success", "version"}

\* The URI cannot be read: the error is logged, exit_code is set to 1 and
\* `1 if not exit_code else 0` makes the process exit with 0.
C23_UnreadableExitsZero ==
    /\ ~invocation.readable
    /\ pc = "done"
    /\ result = "unreadable"
    /\ exit_code = 0

\* The user interrupts a curation after its first step: the process exits
\* with 0.
C23_CancelledExitsZero ==
    /\ argv = <<"curation">>
    /\ Len(trace) = 1
    /\ pc = "done"
    /\ result = "cancelled"
    /\ exit_code = 0

\* Initialization failed: the URI could not be read, or the constructor of
\* the wrangler could not load and validate the document.
InitFailed == result = "unreadable" \/ CaughtInCli \in log

\* After a failed initialization no step has run, no collaborator was called
\* and the document is as it was found; the process has ended and an error
\* is in the log.
C24_InitFailureRunsNothing ==
    InitFailed =>
       /\ pc = "done"
       /\ trace = <<>>
       /\ wf_results = <<>>
       /\ external = <<>>
       /\ resolver_call = NoCall
       /\ spec_doc = spec_loaded
       /\ spec_file = spec_loaded
       /\ \E e \in log : e.level \in {"error", "exception"}

\* C24: a failed initialization is terminal: no workflow step and no explicit
\* step is executed, no environment or repository is touched, and the run
\* reports failure.
C24_InitFailureTerminal ==
    /\ C24_InitFailureRunsNothing
    /\ InitFailed => exit_code = 1

\* The document could not be loaded: nothing ran and the exit code is 1.
C24_LoadFailed ==
    /\ argv = <<"curation">>
    /\ CaughtInCli \in log
    /\ trace = <<>>
    /\ exit_code = 1

\* The calls of cmd made by the step that is entry n of the trace.
calls_of(log_of_calls, n, cmd) ==
    SelectSeq(log_of_calls, LAMBDA c : c.at = n /\ c.cmd = cmd)

\* C25: with data_no_unpack_existing, _data_unpack calls unarchive for no
\* archive whose destination exists, goes on to the other archives, and
\* returns True when those unpack and both export files are saved.
C25_ExistingDataSkipped ==
    [][(Calls("_data_unpack") /\ "data_no_unpack_existing" \in config.flags) =>
          LET n == Len(trace')
              unarchived == calls_of(external', n, "unarchive")
              exported == calls_of(external', n, "save_exports_file")
              missing == SelectSeq(Assets, LAMBDA a : a \notin world.unpacked)
              all_unpacked == /\ Len(unarchived) = Len(missing)
                              /\ \A i \in 1..Len(missing) :
                                    /\ unarchived[i].arg = missing[i]
                                    /\ unarchived[i].outcome = "ok"
              all_exported == /\ Len(exported) = 2
                              /\ \A i \in 1..2 : exported[i].outcome = "ok"
          IN /\ \A i \in 1..Len(unarchived) : unarchived[i].arg \notin world.unpacked
             /\ IsPrefix([i \in 1..Len(unarchived) |-> unarchived[i].arg], missing)
             /\ get_output_data("data") # "none" =>
                   (Last(trace').ret = "True" <=> (all_unpacked /\ all_exported))]_vars

\* C25 witness: --data-unpack --data-no-unpack-existing, where archive a1
\* was unpacked before: only a2 was unarchived and the step returned True.
C25_Witness ==
    /\ argv = <<"data_unpack", "data_no_unpack_existing">>
    /\ trace = <<Executed("explicit", "-", "_data_unpack", "True")>>
    /\ Len(calls_of(external, 1, "unarchive")) = 1
    /\ calls_of(external, 1, "unarchive")[1].arg = "a2"
    /\ world.unpacked = {"a1", "a2"}
    /\ result = "success"

\* Every destination exists: nothing is unarchived and the step succeeds.
C25_NothingToUnpack ==
    /\ argv = <<"data_unpack", "data_no_unpack_existing">>
    /\ trace = <<Executed("explicit", "-", "_data_unpack", "True")>>
    /\ calls_of(external, 1, "unarchive") = <<>>

\* C26: without --data-no-validation, _data_validate returns False when an
\* archive does not match its recorded metadata and when the data block has
\* no metadata yet; it returns True only when every archive validated.
C26_MismatchFailsValidation ==
    [][(Calls("_data_validate") /\ "data_no_validation" \notin config.flags) =>
          LET validated == calls_of(external', Len(trace'), "validate")
              ret == Last(trace').ret
          IN /\ (\E i \in 1..Len(validated) : validated[i].outcome = "mismatch") =>
                   ret = "False"
             /\ get_output_data("data") = "d_collected" =>
                   (ret = "False" /\ validated = <<>>)
             /\ ret = "True" =>
                   /\ Len(validated) = Len(Assets)
                   /\ \A i \in 1..Len(validated) :
                         /\ validated[i].arg = Assets[i]
                         /\ validated[i].outcome = "ok"]_vars

\* C26 witness: in --data-reinstall archive a2 did not validate: the step
\* returned False, _data_unpack was not reached and the run failed.
C26_Witness ==
    /\ argv = <<"data_reinstall">>
    /\ trace # <<>>
    /\ Last(trace) = Executed("workflow", "data_reinstall", "_data_validate", "False")
    /\ \E i \in 1..Len(external) :
          external[i] = [at |-> Len(trace), cmd |-> "validate", arg |-> "a2",
                         outcome |-> "mismatch"]
    /\ pc = "done"
    /\ result = "failure"
    /\ exit_code = 1

\* --data-validate on a data block without metadata fails without a look at
\* the archives.
C26_NoMetadataFails ==
    /\ argv = <<"data_validate">>
    /\ spec_doc.out.data = "d_collected"
    /\ trace = <<Executed("explicit", "-", "_data_validate", "False")>>
    /\ external = <<>>
    /\ result = "failure"

\* The commands that run under a timeout budget.
TimedCommands ==
    {"create_environment", "register_environment", "unregister_environment",
     "delete_environment", "install_packages", "uninstall_packages", "test_imports"}

\* C27: when a command exceeds its timeout the step that ran it does not
\* succeed and the run ends as a failure with exit code 1; no command is run
\* twice by one step execution.
C27_TimeoutFailsStepOnce ==
    /\ \A i \in 1..Len(external) :
          (external[i].cmd \in TimedCommands /\ external[i].outcome = "timeout") =>
             /\ external[i].at = Len(trace)
             /\ Last(trace).ret # "True"
             /\ pc = "done"
             /\ result = "failure"
             /\ exit_code = 1
    /\ \A i, j \in 1..Len(external) :
          (/\ external[i].cmd \in TimedCommands
           /\ external[i].at = external[j].at
           /\ external[i].cmd = external[j].cmd
           /\ external[i].arg = external[j].arg) => i = j

\* C27 witness: in --curate the creation of the environment timed out: one
\* call, the step did not return, the run failed.
C27_Witness ==
    /\ argv = <<"curation">>
    /\ Len(trace) = 3
    /\ trace[3] = Executed("workflow", "curation", "_initialize_environment", "raise")
    /\ external = <<[at |-> 3, cmd |-> "env_list", arg |-> "k_new", outcome |-> "ok"],
                    [at |-> 3, cmd |-> "create_environment", arg |-> "k_new",
                     outcome |-> "timeout"]>>
    /\ env_path("k_new") \notin world.env
    /\ result = "failure"
    /\ exit_code = 1

\* The import test timed out: test_nb_imports catches it and reports failure.
C27_ImportTestTimedOut ==
    /\ argv = <<"test_imports">>
    /\ trace = <<Executed("explicit", "-", "_test_imports", "False")>>
    /\ Len(external) = 1
    /\ external[1].outcome = "timeout"
    /\ result = "failure"

\* A step that returned False is named in an error line of the log, and the
\* workflow it belongs to has returned False.
C28_FailedStepNamed ==
    (trace # <<>> /\ Last(trace).ret = "False") =>
       /\ \E e \in log : e.level = "error" /\ e.about = Last(trace).step
       /\ Last(trace).phase = "workflow" =>
             Last(wf_results) = [wf |-> Last(trace).wf, ok |-> FALSE]

\* C28: an exception raised inside a step becomes the failure result of that
\* step: the fail-fast sequencing stops the workflow or the explicit steps,
\* and an error line of the log names the step.
C28_StepExceptionBecomesFailure ==
    /\ C28_FailedStepNamed
    /\ (trace # <<>> /\ Last(trace).ret = "raise") =>
          /\ \E e \in log : e.level = "error" /\ e.about = Last(trace).step
          /\ Last(trace).phase = "workflow" =>
                (wf_results # <<>> /\
                 Last(wf_results) = [wf |-> Last(trace).wf, ok |-> FALSE])

\* In --curate the installation of the packages timed out: the exception
\* went through run_workflow to main; the workflow returned nothing and the
\* only line logged for the failure is that of main.
C28_ExceptionPassesRunWorkflow ==
    /\ argv = <<"curation">>
    /\ Len(trace) = 4
    /\ trace[4] = Executed("workflow", "curation", "_install_packages", "raise")
    /\ wf_results = <<>>
    /\ CaughtInMain \in log
    /\ \A e \in log : e.about # "_install_packages"
    /\ result = "failure"

---------------------------------------------------------------------------
(* Properties of the command line, continued *)

\* C29: when --dev is on the command line, config.dev is on after the
\* dev-mode adjustment, whatever workflows are selected and whether or not the
\* document has dev_overrides.
C29_ExplicitDevOverrides ==
    (DevAdjusted /\ "dev" \in Range(argv)) => config.dev

\* After the adjustment config.dev is on only for a curation on a document
\* with dev_overrides, with or without --dev.
C29_DevOnlyFromOverrides ==
    DevAdjusted =>
       (config.dev <=> (/\ Range(config.workflows) \cap CurationFamily # {}
                        /\ spec_loaded.dev_overrides))

\* --reset-curation --dev on a document with dev_overrides: development mode
\* is off when the workflow is dispatched.
C29_ExplicitDevDropped ==
    /\ argv = <<"dev", "reset_curation">>
    /\ spec_loaded.dev_overrides
    /\ DevAdjusted
    /\ ~config.dev
    /\ pc = "workflow"

---------------------------------------------------------------------------
(* Properties of the process, continued *)

RequiresPrecompiled ==
    [level |-> "error", msg |-> "This workflow requires a precompiled spec",
     about |-> "reinstall"]

\* C30: when --reinstall is dispatched on a document whose out section lacks
\* mamba_spec or pip_compiler_output, the workflow returns False and the run
\* fails without a step executed: no repository is prepared, no environment
\* created, no package installed.
C30_ReinstallNeedsCompiledSpec ==
    [][(/\ pc = "dispatch"
        /\ config.workflows[wf_idx] = "reinstall"
        /\ \/ get_output_data("mamba_spec") = "none"
           \/ get_output_data("pip_compiler_output") = "none"
        /\ result' # "cancelled") =>
           /\ trace' = trace
           /\ external' = external
           /\ world' = world
           /\ resolver_call' = resolver_call
           /\ spec_doc' = spec_doc
           /\ wf_results' = Append(wf_results, [wf |-> "reinstall", ok |-> FALSE])
           /\ RequiresPrecompiled \in log'
           /\ pc' = "done"
           /\ result' = "failure"
           /\ exit_code' = 1]_vars

\* C30 witness: --reinstall on a document with a mamba spec but without
\* pip_compiler_output has failed before its first step.
C30_Witness ==
    /\ argv = <<"reinstall">>
    /\ spec_doc.out = HalfCompiledOut
    /\ trace = <<>>
    /\ external = <<>>
    /\ resolver_call = NoCall
    /\ wf_results = <<[wf |-> "reinstall", ok |-> FALSE]>>
    /\ RequiresPrecompiled \in log
    /\ result = "failure"
    /\ exit_code = 1

---------------------------------------------------------------------------
(* Properties: the environment steps *)

\* What environment_exists reported to the step that became trace entry n:
\* the answer it computes from the listing that step ran.
reported_existing(name, calls) ==
    LET listed == calls_of(calls, Len(trace'), "env_list")
    IN IF listed = <<>> THEN is_base_env_alias(name)
       ELSE environment_exists(name, listed[1].outcome)

C31_CreatedAgainOnlyAfterFailedListing ==
    \A i, j \in 1..Len(external) :
       (/\ i < j
        /\ external[i].cmd = "create_environment" /\ external[i].outcome = "ok"
        /\ external[j].cmd = "create_environment"
        /\ external[j].arg = external[i].arg) =>
          \E k \in 1..Len(external) :
             /\ external[k].at = external[j].at
             /\ external[k].cmd = "env_list"
             /\ external[k].outcome # "ok"

C31_NothingCompiled ==
    /\ argv = <<"env_init">>
    /\ spec_loaded.out = FreshOut
    /\ trace # <<>>
    /\ Last(trace) = Executed("explicit", "-", "_initialize_environment", "False")
    /\ external = <<>>

C32_NothingToDelete ==
    /\ argv = <<"env_delete">>
    /\ trace # <<>>
    /\ Last(trace) = Executed("explicit", "-", "_delete_environment", "True")
    /\ world.env = {}
    /\ Len(external) = 2
    /\ \A i \in 1..2 : external[i].cmd = "env_list" /\ external[i].outcome = "ok"

\* C33: when the listing of the environments succeeds, environment_exists
\* answers True for a name exactly if the environment of that name is under
\* the root or the name is an alias of the base environment; another
\* environment never makes it answer True.
C33_ExistsIsExact ==
    [][(/\ Calls("_initialize_environment")
        /\ get_output_data("mamba_spec") # "none"
        /\ \A i \in 1..Len(external') :
              external'[i].cmd = "env_list" => external'[i].outcome = "ok") =>
          (reported_existing(resolved_kname, external') <=>
              \/ is_base_env_alias(resolved_kname)
              \/ env_path(resolved_kname) \in world.env)]_vars

\* The half that holds: an environment of exactly that name, listed, makes
\* environment_exists answer True.
C33_ExactNameIsFound ==
    \A name \in KernelNames :
       env_path(name) \in world.env => environment_exists(name, "ok")

\* --env-init for the kernel k_out while only old-k_out exists: the step
\* listed the environments, took k_out for existing and returned True
\* without creating it.
C33_OtherEnvironmentTakenForIt ==
    /\ argv = <<"env_init">>
    /\ trace # <<>>
    /\ Last(trace) = Executed("explicit", "-", "_initialize_environment", "True")
    /\ external = <<[at |-> 1, cmd |-> "env_list", arg |-> "k_out", outcome |-> "ok"]>>
    /\ env_path("old-k_out") \in world.env
    /\ env_path("k_out") \notin world.env

\* C38: no run issues the command that removes an environment for an alias
\* of the base environment.
C38_BaseNeverRemoved ==
    \A i \in 1..Len(external) :
       external[i].cmd = "delete_environment" => ~is_base_env_alias(external[i].arg)

\* No environment of another name is touched for a base specification: the
\* commands of the delete step all carry the resolved kernel name.
C38_CommandsNameResolvedKernel ==
    \A i \in 1..Len(external) :
       external[i].cmd \in {"unregister_environment", "delete_environment"} =>
          external[i].arg \in {spec_doc.kernel_name, spec_loaded.out.kernel_name, "k_new"}

\* --env-delete on a specification whose kernel is base: the kernel was
\* unregistered and `env remove -n base` was run, without any listing.
C38_BaseRemovalIssued ==
    /\ argv = <<"env_delete">>
    /\ spec_doc.kernel_name = "base"
    /\ trace # <<>>
    /\ Last(trace) = Executed("explicit", "-", "_delete_environment", "True")
    /\ external = <<[at |-> 1, cmd |-> "unregister_environment", arg |-> "base",
                     outcome |-> "ok"],
                    [at |-> 1, cmd |-> "delete_environment", arg |-> "base",
                     outcome |-> "ok"]>>

---------------------------------------------------------------------------
(* Properties: the data listing *)

\* The arguments of the calls `cmd` made by the step that is trace entry n.
args_of(log_of_calls, n, cmd) ==
    LET made == calls_of(log_of_calls, n, cmd)
    IN [i \in 1..Len(made) |-> made[i].arg]

\* C34: _data_list prints every archive the selection returned, each once
\* and in the order of the index, and returns True.
C34_ListsEverySelectedArchive ==
    [][(Calls("_data_list") /\ Last(trace').ret # "raise") =>
          LET n == Len(trace')
          IN /\ args_of(external', n, "print") = args_of(external', n, "get_data_urls")
             /\ Last(trace').ret = "True"]_vars

\* What does hold: the step returns True, and what it prints is a prefix of
\* the selection that lacks exactly its last archive.
C34_ListsAllButTheLast ==
    [][(Calls("_data_list") /\ Last(trace').ret # "raise") =>
          LET n == Len(trace')
              urls == args_of(external', n, "get_data_urls")
          IN /\ args_of(external', n, "print") = SubSeq(urls, 1, Len(urls) - 1)
             /\ Last(trace').ret = "True"]_vars

\* --data-list with a selection that matches both archives: only the first
\* one was printed.
C34_LastArchiveMissing ==
    /\ argv = <<"data_list">>
    /\ trace # <<>>
    /\ Last(trace) = Executed("explicit", "-", "_data_list", "True")
    /\ args_of(external, 1, "get_data_urls") = <<"a1", "a2">>
    /\ args_of(external, 1, "print") = <<"a1">>

---------------------------------------------------------------------------
(* Properties: the SPI injection *)

\* The injector operations in the order the inject-spi workflow may call them.
InjectorOrder ==
    <<"inject", "branch", "add_injected_files", "prune", "build", "commit", "push",
      "create_pr">>

\* The injector operations of the run so far.
injector_calls == SelectSeq(external, LAMBDA c : c.cmd \in Range(InjectorOrder))

\* The place of an operation in InjectorOrder.
injector_rank(cmd) == CHOOSE k \in 1..Len(InjectorOrder) : InjectorOrder[k] = cmd

\* C35: the injector operations of a run follow the order inject, branch,
\* add_injected_files, prune, build, commit, push, create_pr; each one was
\* preceded only by successful ones; prune, build, push and create_pr run
\* only if requested, none after inject without an SPI automation flag, and
\* create_pr only after a successful push.
C35_InjectorOrder ==
    LET ops == injector_calls
    IN /\ \A i, j \in 1..Len(ops) :
             i < j => injector_rank(ops[i].cmd) < injector_rank(ops[j].cmd)
       /\ \A i, j \in 1..Len(ops) : i < j => ops[i].outcome = "ok"
       /\ \A i \in 1..Len(ops) :
             /\ ops[i].cmd # "inject" => config.flags \cap SpiFlags # {}
             /\ ops[i].cmd = "prune" => "spi_prune" \in config.flags
             /\ ops[i].cmd = "build" => "spi_build" \in config.flags
             /\ ops[i].cmd = "push" => "spi_push" \in config.flags
             /\ ops[i].cmd = "create_pr" =>
                   /\ "spi_pr" \in config.flags
                   /\ \E j \in 1..(i - 1) : ops[j].cmd = "push" /\ ops[j].outcome = "ok"

\* C35 witness: --inject-spi --spi-prune --spi-build --spi-push --spi-pr ran
\* all eight operations, each successfully, and the run succeeded.
C35_Witness ==
    /\ argv = <<"inject_spi", "spi_prune", "spi_build", "spi_push", "spi_pr">>
    /\ pc = "done"
    /\ result = "success"
    /\ [i \in 1..Len(injector_calls) |-> injector_calls[i].cmd] = InjectorOrder
    /\ \A i \in 1..Len(injector_calls) : injector_calls[i].outcome = "ok"

\* The commit failed: push and create_pr were not called and the run failed.
C35_StopsAtFailedCommit ==
    /\ argv = <<"inject_spi", "spi_push", "spi_pr">>
    /\ pc = "done"
    /\ result = "failure"
    /\ [i \in 1..Len(injector_calls) |-> injector_calls[i].cmd] =
          <<"inject", "branch", "add_injected_files", "commit">>
    /\ injector_calls[4].outcome = "nonzero"

\* C36: a run of --inject-spi with --spi-pr that ends in success has created
\* a pull request.
C36_SuccessMeansPullRequest ==
    (/\ pc = "done"
     /\ result = "success"
     /\ "inject_spi" \in Range(config.workflows)
     /\ "spi_pr" \in config.flags) =>
       \E i \in 1..Len(external) :
          external[i].cmd = "create_pr" /\ external[i].outcome = "ok"

\* What holds: with --spi-push and --spi-pr a successful run has pushed the
\* branch and then created the pull request.
C36_PushedSuccessMeansPullRequest ==
    (/\ pc = "done"
     /\ result = "success"
     /\ "inject_spi" \in Range(config.workflows)
     /\ {"spi_push", "spi_pr"} \subseteq config.flags) =>
       \E i, j \in 1..Len(external) :
          /\ i < j
          /\ external[i].cmd = "push" /\ external[i].outcome = "ok"
          /\ external[j].cmd = "create_pr" /\ external[j].outcome = "ok"

\* --inject-spi --spi-pr without --spi-push: the changes were committed, the
\* push was skipped with an info message, no pull request was created and
\* the run succeeded.
C36_SuccessWithoutPullRequest ==
    /\ argv = <<"inject_spi", "spi_pr">>
    /\ pc = "done"
    /\ result = "success"
    /\ exit_code = 0
    /\ [i \in 1..Len(injector_calls) |-> injector_calls[i].cmd] =
          <<"inject", "branch", "add_injected_files", "commit">>

---------------------------------------------------------------------------
(* Properties: the SPI repository in the preparation *)

\* C37: a repository preparation leaves the SPI repository out only when
\* --packages-omit-spi is given and neither --inject-spi nor
\* --submit-for-build is on the command line; the preparation of either of
\* these two workflows asks the resolver for the SPI repository.
C37_SpiPreparedForSpiWorkflows ==
    [][(\E fn \in PrepareSteps : Calls(fn)) =>
          LET requested == resolver_call'.requested
          IN /\ "spi" \notin DOMAIN requested =>
                   /\ "packages_omit_spi" \in Range(argv)
                   /\ "inject_spi" \notin Range(argv)
                   /\ "submit_for_build" \notin Range(argv)
             /\ Last(trace').wf \in {"inject_spi", "submit_for_build"} =>
                   "spi" \in DOMAIN requested]_vars

\* What holds: the SPI repository is left out exactly when
\* --packages-omit-spi is given without --inject-spi.
C37_SpiOmittedUnlessInjecting ==
    [][(\E fn \in PrepareSteps : Calls(fn)) =>
          ("spi" \notin DOMAIN resolver_call'.requested <=>
              /\ "packages_omit_spi" \in Range(argv)
              /\ "inject_spi" \notin Range(argv))]_vars

\* --submit-for-build --packages-omit-spi: the preparation of the workflow
\* asked the resolver for the notebook repositories only.
C37_SubmitPreparedWithoutSpi ==
    /\ argv = <<"submit_for_build", "packages_omit_spi">>
    /\ "submit_for_build" \notin config.flags
    /\ trace # <<>>
    /\ Last(trace) =
          Executed("workflow", "submit_for_build", "_prepare_all_repositories", "True")
    /\ resolver_call.made
    /\ DOMAIN resolver_call.requested = Repos

\* --inject-spi --packages-omit-spi: the SPI repository was prepared.
C37_InjectPreparedWithSpi ==
    /\ argv = <<"inject_spi", "packages_omit_spi">>
    /\ trace # <<>>
    /\ Last(trace) = Executed("workflow", "inject_spi", "_prepare_all_repositories", "True")
    /\ "spi" \in DOMAIN resolver_call.requested

---------------------------------------------------------------------------
(* Properties: the compiled pair *)

\* C39: when the out section holds both mamba_spec and pip_compiler_output,
\* both come from the same execution of the compile step.
C39_CompiledPairFromOneCompile ==
    (/\ spec_doc.out.mamba_spec # "none"
     /\ spec_doc.out.pip_compiler_output # "none") =>
       spec_doc.out.mamba_spec = spec_doc.out.pip_compiler_output

\* What holds: a compile step that returned True wrote both fields.
C39_SuccessfulCompileWritesBoth ==
    [][(Calls("_compile_requirements") /\ Last(trace').ret = "True") =>
          /\ spec_doc'.out.mamba_spec = "new"
          /\ spec_doc'.out.pip_compiler_output = "new"
          /\ spec_doc'.out.kernel_name = compiled_kernel_name']_vars

\* --curate on a curated specification: the new kernel name and mamba_spec
\* were saved, pip pin-compilation failed, and the out section keeps the
\* pip_compiler_output of the earlier compile next to them.
C39_NewPlanOldPins ==
    /\ argv = <<"curation">>
    /\ spec_loaded.out = CuratedOut
    /\ trace # <<>>
    /\ Last(trace) = Executed("workflow", "curation", "_compile_requirements", "False")
    /\ spec_doc.out.kernel_name = "k_new"
    /\ spec_doc.out.mamba_spec = "new"
    /\ spec_doc.out.pip_compiler_output = "old"
    /\ result = "failure"

---------------------------------------------------------------------------
(* Properties: the order of the workflows *)

\* The place of a workflow in workflow_flags.
workflow_rank(w) == CHOOSE k \in 1..Len(workflow_flags) : workflow_flags[k] = w

\* C40: config.workflows holds the workflows selected on the command line in
\* the order curation, reinstall, reset_curation, data_curation,
\* data_reinstall, submit_for_build, inject_spi, whatever the order of the
\* flags; the workflows return in that order; each of them is a key of the
\* dispatch table and "Undefined workflow" is never logged.
C40_CanonicalWorkflowOrder ==
    /\ Range(config.workflows) = Range(argv) \cap Range(workflow_flags)
    /\ \A i, j \in 1..Len(config.workflows) :
          i < j => workflow_rank(config.workflows[i]) < workflow_rank(config.workflows[j])
    /\ Len(wf_results) <= Len(config.workflows)
    /\ \A k \in 1..Len(wf_results) : wf_results[k].wf = config.workflows[k]
    /\ Range(config.workflows) \subseteq workflow_map
    /\ \A l \in log : l.msg # "Undefined workflow"

\* C40 witness: --reinstall --curate, in this order on the command line, ran
\* the curation workflow first and the reinstall workflow after it.
C40_Witness ==
    /\ argv = <<"reinstall", "curation">>
    /\ config.workflows = <<"curation", "reinstall">>
    /\ Len(wf_results) = 2
    /\ wf_results[1] = [wf |-> "curation", ok |-> TRUE]
    /\ wf_results[2].wf = "reinstall"
    /\ trace[1].wf = "curation"
    /\ Last(trace).wf = "reinstall"

====
